---- MODULE Spec2Model ----
(***************************************************************************)
(* Model of the hybrid analog/DSP node of src/hardware/hybrid_node.cpp.    *)
(*                                                                         *)
(* Number representation.  A C float is modelled as an integer in fixed    *)
(* point; the unit is stated where a quantity is introduced:               *)
(*   samples, depth, coherence, gains   thousandths (1.0 = 1000)           *)
(*   voltages                           millivolts  (5.0 V = 5000)         *)
(*   temperature                        tenths of a degree (85.0 = 850)    *)
(*   frequencies (centroid, flux)       Hz                                 *)
(*   ici                                microseconds (100 ms = 100000)     *)
(* The float NaN is the one value NaN, which every comparison treats as    *)
(* unordered, as IEEE-754 does.                                            *)
(***************************************************************************)
EXTENDS Integers, Sequences, FiniteSets, TLC

\* ------------------------------------------------------------------ bounds

\* Frames per buffer of the model (HYBRID_BUFFER_SIZE is 512 in the source).
BufferSize == 2

\* Process cycles per run (frames_processed is capped here by the guard).
MaxFrames == 2

\* Overload events counted per initialisation.
MaxOverloads == 2

\* Clamp events counted per initialisation.
MaxClamps == 1

\* Flux values stored in the ring g_ici_buffer (g_ici_index is capped here).
MaxRing == 1
MaxSamples == 2
MaxPulses == 1001

\* ------------------------------------------------------- program constants

HYBRID_SAMPLE_RATE == 48000
HYBRID_ADC_CHANNELS == 2
HYBRID_DAC_CHANNELS == 4
HYBRID_BUFFER_SIZE == BufferSize
\* hybrid_node.h:42 has HYBRID_FFT_SIZE = 2 * HYBRID_BUFFER_SIZE (1024, 512)
HYBRID_FFT_SIZE == 2 * HYBRID_BUFFER_SIZE

ANALOG_PREAMP_GAIN_MIN == 1000
ANALOG_PREAMP_GAIN_MAX == 40000

SAFETY_VOLTAGE_MAX == 5000
SAFETY_VOLTAGE_MIN == 0
SAFETY_TEMP_WARNING == 700
SAFETY_TEMP_CRITICAL == 850
SAFETY_OVERLOAD_THRESH == 950

HYBRID_MODE_HYBRID == 2

HYBRID_SAFETY_OK == 0
HYBRID_SAFETY_VOLTAGE_CLAMP == 1
HYBRID_SAFETY_TEMP_WARNING == 2
HYBRID_SAFETY_TEMP_CRITICAL == 3
HYBRID_SAFETY_ADC_OVERLOAD == 4
HYBRID_SAFETY_FAULT == 5

\* Length of the flux ring g_ici_buffer.
ICI_RING == 32

\* Offset measurements averaged by a calibration.
CAL_SAMPLES == 10

HYBRID_MODE_ANALOG_ONLY == 0
HYBRID_MODE_CALIBRATION == 3

\* src/hardware/i2s_bridge.h
I2S_SAMPLE_RATE == 48000
I2S_BIT_DEPTH == 24
I2S_CHANNELS == 8

\* i2s_bridge.h:37 has I2S_BUFFER_SIZE = 512 frames; the model's buffers hold
\* BufferSize frames
I2S_BUFFER_SIZE == BufferSize

I2S_MODE_MASTER == 0

I2S_LINK_DISCONNECTED == 0
I2S_LINK_SYNCING == 1
I2S_LINK_STABLE == 2
PHI_SENSOR_SAMPLE_RATE == 30
PHI_SENSOR_CHANNELS == 4
PHI_SENSOR_ADC_MAX == 4095
\* 3.3f volts, in millivolts
PHI_SENSOR_VOLTAGE_MAX == 3300
\* 0.3f, in thousandths
FILTER_ALPHA == 300

\* ------------------------------------------------------------------ floats

\* The float NaN (any integer no quantity of the model takes).
NaN == -999999999

IsNaN(x) == x = NaN

\* a < b, a > b, a >= b on floats: false when either operand is NaN
FLt(a, b) == ~IsNaN(a) /\ ~IsNaN(b) /\ a < b
FGt(a, b) == ~IsNaN(a) /\ ~IsNaN(b) /\ a > b
FGe(a, b) == ~IsNaN(a) /\ ~IsNaN(b) /\ a >= b

\* fmaxf / fminf: a NaN operand is ignored in favour of the other one
fmaxf(a, b) == IF IsNaN(a) THEN b ELSE IF IsNaN(b) THEN a ELSE IF a > b THEN a ELSE b
fminf(a, b) == IF IsNaN(a) THEN b ELSE IF IsNaN(b) THEN a ELSE IF a < b THEN a ELSE b

fabsf(a) == IF IsNaN(a) THEN NaN ELSE IF a < 0 THEN -a ELSE a

\* a - b
FSub(a, b) == IF IsNaN(a) \/ IsNaN(b) THEN NaN ELSE a - b

\* quotient rounded toward zero, as a C conversion of the exact quotient
TDiv(a, b) == IF a >= 0 THEN a \div b ELSE -((-a) \div b)

\* product of two quantities in thousandths (or of one with any unit)
FMul(a, b) == IF IsNaN(a) \/ IsNaN(b) THEN NaN ELSE TDiv(a * b, 1000)

\* quotient a / b as a quantity in thousandths (b # 0)
FDiv(a, b) == IF IsNaN(a) \/ IsNaN(b) THEN NaN ELSE TDiv(a * 1000, b)

RECURSIVE SqrtSearch(_, _, _)
SqrtSearch(n, lo, hi) ==
    IF lo >= hi THEN lo
    ELSE LET mid == (lo + hi + 1) \div 2
         IN  IF mid * mid <= n THEN SqrtSearch(n, mid, hi)
             ELSE SqrtSearch(n, lo, mid - 1)

\* sqrtf on a non-negative integer quantity (rounded down); the search starts
\* below the root of the largest 32-bit integer
sqrtf(n) == SqrtSearch(n, 0, IF n < 46340 THEN n ELSE 46340)

\* ------------------------------------------------------------- structures

\* A float buffer of n zeros (memset 0)
Zeros(n) == [i \in 1..n |-> 0]

\* HybridNodeConfig after static zero-initialisation
ZeroConfig ==
    [ sample_rate |-> 0, buffer_size |-> 0, adc_channels |-> 0, dac_channels |-> 0,
      preamp_gain |-> 0, hpf_cutoff |-> 0, lpf_cutoff |-> 0,
      enable_analog_filter |-> FALSE,
      enable_dsp |-> FALSE, enable_coherence |-> FALSE, enable_ici |-> FALSE,
      enable_modulation |-> FALSE, modulation_depth |-> 0,
      enable_voltage_clamp |-> FALSE, enable_thermal_monitor |-> FALSE,
      mode |-> 0 ]

\* CalibrationData, all bytes zero
ZeroCalibration ==
    [ adc_gain |-> Zeros(HYBRID_ADC_CHANNELS), adc_offset |-> Zeros(HYBRID_ADC_CHANNELS),
      dac_gain |-> Zeros(HYBRID_DAC_CHANNELS), dac_offset |-> Zeros(HYBRID_DAC_CHANNELS),
      adc_latency_us |-> 0, dsp_latency_us |-> 0, dac_latency_us |-> 0,
      total_latency_us |-> 0, calibration_timestamp |-> 0, is_calibrated |-> FALSE ]

\* sizeof(CalibrationData) in 32-bit words: the four arrays, the four latencies,
\* the timestamp, and the flag with its padding
CalibrationSize == 2 * HYBRID_ADC_CHANNELS + 2 * HYBRID_DAC_CHANNELS + 6

\* Faulty variant of the record written: the timestamp is left out
CalibrationWordsWithoutTimestamp(cal) ==
    cal.adc_gain \o cal.adc_offset \o cal.dac_gain \o cal.dac_offset \o
    << cal.adc_latency_us, cal.dsp_latency_us, cal.dac_latency_us,
       cal.total_latency_us, 0, IF cal.is_calibrated THEN 1 ELSE 0 >>

\* The bytes of a CalibrationData in memory, word by word in declaration order
\* (what fwrite(&g_status.calibration, sizeof(CalibrationData), 1, fp) writes)
CalibrationWords(cal) ==
    cal.adc_gain \o cal.adc_offset \o cal.dac_gain \o cal.dac_offset \o
    << cal.adc_latency_us, cal.dsp_latency_us, cal.dac_latency_us,
       cal.total_latency_us, cal.calibration_timestamp,
       IF cal.is_calibrated THEN 1 ELSE 0 >>

\* The CalibrationData whose memory holds the words w (what fread leaves in cal)
CalibrationOfWords(w) ==
    LET a == HYBRID_ADC_CHANNELS
        d == HYBRID_DAC_CHANNELS
    IN  [ adc_gain |-> SubSeq(w, 1, a), adc_offset |-> SubSeq(w, a + 1, 2 * a),
          dac_gain |-> SubSeq(w, 2 * a + 1, 2 * a + d),
          dac_offset |-> SubSeq(w, 2 * a + d + 1, 2 * a + 2 * d),
          adc_latency_us |-> w[2 * a + 2 * d + 1],
          dsp_latency_us |-> w[2 * a + 2 * d + 2],
          dac_latency_us |-> w[2 * a + 2 * d + 3],
          total_latency_us |-> w[2 * a + 2 * d + 4],
          calibration_timestamp |-> w[2 * a + 2 * d + 5],
          is_calibrated |-> w[2 * a + 2 * d + 6] # 0 ]

\* HybridNodeStatus, all bytes zero (static storage, and memset in init)
ZeroStatus ==
    [ mode |-> 0, is_running |-> FALSE, is_calibrated |-> FALSE,
      analog |-> [ rms_level |-> 0, peak_level |-> 0, dc_offset |-> 0,
                   is_overloaded |-> FALSE ],
      dsp |-> [ ici |-> 0, coherence |-> 0, spectral_centroid |-> 0,
                spectral_flux |-> 0, zero_crossing_rate |-> 0, timestamp_us |-> 0 ],
      control |-> [ cv1 |-> 0, cv2 |-> 0, phi_phase |-> 0, phi_depth |-> 0 ],
      safety |-> [ status |-> HYBRID_SAFETY_OK, temperature |-> 0,
                   voltage_out |-> Zeros(HYBRID_DAC_CHANNELS),
                   overload_count |-> 0, clamp_count |-> 0,
                   thermal_warning |-> FALSE ],
      calibration |-> ZeroCalibration,
      stats |-> [ frames_processed |-> 0, frames_dropped |-> 0, cpu_load |-> 0,
                  uptime_ms |-> 0, drift_ppm |-> 0, modulation_fidelity |-> 0 ] ]

\* The configuration of the self-test (main), with the model's buffer size
DefaultConfig ==
    [ sample_rate |-> HYBRID_SAMPLE_RATE, buffer_size |-> HYBRID_BUFFER_SIZE,
      adc_channels |-> HYBRID_ADC_CHANNELS, dac_channels |-> HYBRID_DAC_CHANNELS,
      preamp_gain |-> 10000, hpf_cutoff |-> 120, lpf_cutoff |-> 8000,
      enable_analog_filter |-> TRUE,
      enable_dsp |-> TRUE, enable_coherence |-> TRUE, enable_ici |-> TRUE,
      enable_modulation |-> TRUE, modulation_depth |-> 800,
      enable_voltage_clamp |-> TRUE, enable_thermal_monitor |-> FALSE,
      mode |-> HYBRID_MODE_HYBRID ]

\* I2SBridgeConfig, all bytes zero
ZeroBridgeConfig ==
    [ mode |-> 0, sample_rate |-> 0, bit_depth |-> 0, channels |-> 0,
      buffer_size |-> 0, enable_gpio_sync |-> FALSE, enable_diagnostics |-> FALSE,
      gpio_sync_pin |-> 0 ]

\* I2SStatistics, all bytes zero
ZeroStatistics ==
    [ frames_transmitted |-> 0, frames_received |-> 0, frames_dropped |-> 0,
      latency_us |-> 0, jitter_us |-> 0, clock_drift_ppm |-> 0,
      link_status |-> I2S_LINK_DISCONNECTED, uptime_ms |-> 0 ]

\* ------------------------------------------------------------------- state

VARIABLES
    platform,                   \* the build: "TEENSY" or "SIM" (no platform macro)
    g_config,                   \* static HybridNodeConfig g_config
    g_status,                   \* static HybridNodeStatus g_status
    g_initialized,              \* static bool g_initialized
    g_running,                  \* static bool g_running
    g_adc_buffer,               \* static float g_adc_buffer[]
    g_dac_buffer,               \* static float g_dac_buffer[]
    g_prev_spectral_centroid,   \* static float g_prev_spectral_centroid
    g_ici_buffer,               \* static float g_ici_buffer[32]
    g_ici_index,                \* static uint8_t g_ici_index
    hpf_state,                  \* static float hpf_state[] of apply_analog_filter
    lpf_state,                  \* static float lpf_state[] of apply_analog_filter
    op,                         \* the public function called last
    ret,                        \* what that call returned
    output,                     \* the caller's output buffer after that call (<<>>: none)
    port_writes,                \* the buffers that call handed to platform_dac_write
    files,                      \* the file system: file name -> the words of the file
    sc001,                      \* what that call printed for SC-001: "PASS", "FAIL" or ""
    saved,                      \* history: file name -> the profile that was live when
                                \* the last save to that file succeeded
    i2s_g_config,               \* static I2SBridgeConfig g_config  (i2s_bridge.cpp)
    g_stats,                    \* static I2SStatistics g_stats
    i2s_g_initialized,          \* static bool g_initialized        (i2s_bridge.cpp)
    i2s_g_running,              \* static bool g_running            (i2s_bridge.cpp)
    g_tx_buffer,                \* static int32_t g_tx_buffer[]
    g_rx_buffer,                \* static int32_t g_rx_buffer[]
    sent,                       \* history: the metrics encoded into g_tx_buffer (a pointer)
    delivered,                  \* history: the metrics of the frame in g_rx_buffer
    cycle,                      \* the process cycle under way in the cycle context:
                                \* pc = 0 when none, else the next stage and the arguments
    snapshot,                   \* the structure a get_status / get_dsp_metrics /
                                \* get_safety call filled last (a pointer)
    sensor,                     \* the statics of phi_sensor.cpp, the caller's position
                                \* in a sensor call, and the samples of the current run
    sync                        \* g_sync_counter (i2s_bridge.cpp), the position of a
                                \* drift calibration and the pulses it has waited through

vars == << platform, g_config, g_status, g_initialized, g_running, g_adc_buffer,
           g_dac_buffer, g_prev_spectral_centroid, g_ici_buffer, g_ici_index,
           hpf_state, lpf_state, op, ret, output, port_writes, files, sc001,
           saved, i2s_g_config, g_stats, i2s_g_initialized, i2s_g_running,
           g_tx_buffer, g_rx_buffer, sent, delivered, cycle, snapshot,
           sensor, sync >>

\* The state of the phi sensor and of the sync pulse counter
peripherals == << sensor, sync >>

\* The statics of i2s_bridge.cpp, with the history of the link
bridge == << i2s_g_config, g_stats, i2s_g_initialized, i2s_g_running,
            g_tx_buffer, g_rx_buffer, sent, delivered >>

\* The program's own state (everything but the record of the last call)
node == << platform, g_config, g_status, g_initialized, g_running, g_adc_buffer,
           g_dac_buffer, g_prev_spectral_centroid, g_ici_buffer, g_ici_index,
           hpf_state, lpf_state >>

\* Sequencing: the value of Step on v, with v evaluated once (the statements of
\* a C function run one after the other, each on the state the last one left)
Then(v, Step(_)) == CHOOSE r \in { Step(x) : x \in {v} } : TRUE

\* A pointer is a sequence: << >> is NULL, << v >> points to v
NULL == << >>
Ptr(v) == << v >>

\* The globals the functions below read and write, as one value, at the entry of
\* a call: nothing written to the port yet, no output buffer, no result
Machine ==
    [ platform |-> platform, g_config |-> g_config, g_status |-> g_status,
      g_running |-> g_running, g_adc_buffer |-> g_adc_buffer,
      g_dac_buffer |-> g_dac_buffer,
      g_prev_spectral_centroid |-> g_prev_spectral_centroid,
      g_ici_buffer |-> g_ici_buffer, g_ici_index |-> g_ici_index,
      hpf_state |-> hpf_state, lpf_state |-> lpf_state,
      g_initialized |-> g_initialized,
      port_writes |-> << >>, output |-> << >>, ret |-> FALSE,
      files |-> files, sc001 |-> "", saved |-> saved ]

\* The globals after a step that left them as m
Store(m) ==
    /\ g_config' = m.g_config
    /\ g_status' = m.g_status
    /\ g_running' = m.g_running
    /\ g_adc_buffer' = m.g_adc_buffer
    /\ g_dac_buffer' = m.g_dac_buffer
    /\ g_prev_spectral_centroid' = m.g_prev_spectral_centroid
    /\ g_ici_buffer' = m.g_ici_buffer
    /\ g_ici_index' = m.g_ici_index
    /\ hpf_state' = m.hpf_state
    /\ lpf_state' = m.lpf_state
    /\ g_initialized' = m.g_initialized
    /\ port_writes' = m.port_writes
    /\ output' = m.output
    /\ ret' = m.ret
    /\ files' = m.files
    /\ sc001' = m.sc001
    /\ saved' = m.saved

\* The state after a whole call that left the globals as m
Commit(m) ==
    /\ Store(m)
    /\ UNCHANGED << platform, bridge, cycle, snapshot, peripherals >>

Platforms == {"TEENSY", "SIM"}

\* No process cycle is under way
Idle == [ pc |-> 0 ]

\* The channels of the sensor, and an array holding v for each of them
Channels == 1 .. PHI_SENSOR_CHANNELS
PerChannel(v) == [ ch \in Channels |-> v ]

\* A PhiSensorData of zeros: voltages in millivolts, normalized values in
\* thousandths
ZeroSensorData ==
    [ sample_number |-> 0, raw_adc |-> PerChannel(0), voltage |-> PerChannel(0),
      normalized |-> PerChannel(0) ]

\* The statics of phi_sensor.cpp before any call (zero-initialised), no sensor
\* call under way.  produced holds the sample numbers of the current run, data
\* is the caller's structure after a read (a pointer), fresh says that the
\* sample in g_current_data was stored after the last copy a read made.  g_sample_timer is the interval the
\* timer was begun with, 0 when it is not running.  was_running, duration_ms,
\* v_min and v_max are the locals of a phi_sensor_calibrate under way and
\* calibration the structure it fills for its caller; found_running is
\* g_running as the call under way found it.  Of a PhiSensorCalibration the
\* voltage bounds are kept, the only fields the code reads
ZeroSensor ==
    [ g_config |-> [ sample_rate_hz |-> 0, enable_calibration |-> FALSE,
                     enable_filtering |-> FALSE ],
      g_stats |-> [ total_samples |-> 0, calibrated |-> FALSE ],
      g_calibration |-> [ voltage_min |-> PerChannel(0), voltage_max |-> PerChannel(0) ],
      g_filter_state |-> PerChannel(0),
      g_initialized |-> FALSE, g_running |-> FALSE, g_sample_counter |-> 0,
      g_current_data |-> ZeroSensorData, g_data_ready |-> FALSE,
      g_sample_timer |-> 0, call |-> "", pc |-> "idle", ret |-> FALSE,
      was_running |-> FALSE, found_running |-> FALSE, duration_ms |-> 0,
      v_min |-> PerChannel(0), v_max |-> PerChannel(0), calibration |-> << >>,
      produced |-> << >>, data |-> << >>, fresh |-> FALSE ]

\* A uint32_t is held as its two 16-bit halves
U32(hi, lo) == [ hi |-> hi, lo |-> lo ]

\* The counts a measurement window starts at: zero, 536 below a carry into the
\* upper half, and 500 below 2^32
SyncCounts == { U32(0, 0), U32(0, 65000), U32(65535, 65036) }

\* A flux ring with a flux of 3000 Hz in the given slots and 0 elsewhere
RingWithPeaks(slots) == [i \in 1..ICI_RING |-> IF i \in slots THEN 3000 ELSE 0]

\* The rings the analyzer finds: no peak, one peak, two adjacent peaks, two
\* peaks half a ring apart, three peaks, and a peak in every slot
FluxRings ==
    { RingWithPeaks({}), RingWithPeaks({5}), RingWithPeaks({5, 6}),
      RingWithPeaks({5, 21}), RingWithPeaks({2, 9, 30}), RingWithPeaks(1..ICI_RING) }

\* g_sync_counter is zero before any pulse; no drift calibration under way
ZeroSync ==
    [ g_sync_counter |-> U32(0, 0), pc |-> "idle", start_count |-> U32(0, 0),
      pulses |-> 0 ]

\* The files present before the program runs: short.cal holds the first words
\* of a calibration record and ends there; no other file exists
InitialFiles ==
    "short.cal" :> SubSeq(CalibrationWords([ZeroCalibration EXCEPT
                                                !.is_calibrated = TRUE]),
                          1, CalibrationSize - 1)

\* The statics as the program starts, but for the flux ring and the sync pulse
\* count, which are as given
InitWith(ici_buffer, ici_index, sync_counter) ==
    /\ platform \in Platforms
    /\ g_config = ZeroConfig
    /\ g_status = ZeroStatus
    /\ g_initialized = FALSE
    /\ g_running = FALSE
    /\ g_adc_buffer = Zeros(HYBRID_BUFFER_SIZE * HYBRID_ADC_CHANNELS)
    /\ g_dac_buffer = Zeros(HYBRID_BUFFER_SIZE * HYBRID_DAC_CHANNELS)
    /\ g_prev_spectral_centroid = 0
    /\ g_ici_buffer = ici_buffer
    /\ g_ici_index = ici_index
    /\ hpf_state = Zeros(HYBRID_ADC_CHANNELS)
    /\ lpf_state = Zeros(HYBRID_ADC_CHANNELS)
    /\ op = "none"
    /\ ret = FALSE
    /\ output = << >>
    /\ port_writes = << >>
    /\ files = InitialFiles
    /\ sc001 = ""
    /\ saved = << >>
    /\ i2s_g_config = ZeroBridgeConfig
    /\ g_stats = ZeroStatistics
    /\ i2s_g_initialized = FALSE
    /\ i2s_g_running = FALSE
    /\ g_tx_buffer = Zeros(I2S_BUFFER_SIZE * I2S_CHANNELS)
    /\ g_rx_buffer = Zeros(I2S_BUFFER_SIZE * I2S_CHANNELS)
    /\ sent = << >>
    /\ delivered = << >>
    /\ cycle = Idle
    /\ snapshot = << >>
    /\ sensor = ZeroSensor
    /\ sync = [ZeroSync EXCEPT !.g_sync_counter = sync_counter]

Init == InitWith(Zeros(ICI_RING), 0, U32(0, 0))

\* The program after cycles have filled the flux ring, which no call clears:
\* the ring is one of FluxRings and the next slot is the first or the last
InitIci ==
    \E ring \in FluxRings, index \in {0, ICI_RING - 1} :
        InitWith(ring, index, U32(0, 0))

\* The program after the sync pulse has run for a while: g_sync_counter holds
\* one of the counts below (the counter reaches 2^32 - 1 after 49.7 days at
\* 1 kHz)
InitDrift ==
    \E count \in SyncCounts : InitWith(Zeros(ICI_RING), 0, count)

\* ------------------------------------------------------- platform access

\* platform_dac_write(buffer, frames): the port receives the buffer
platform_dac_write(m, buffer) ==
    [m EXCEPT !.port_writes = Append(@, buffer)]

\* ------------------------------------------------------ signal conditioner

\* 1 - expf(-2 pi cutoff / sample_rate), in thousandths, at the cut-offs and the
\* sample rate a configuration of the model has
FilterCoeff(cutoff, sample_rate) ==
    CASE cutoff = 120 /\ sample_rate = 48000 -> 16
      [] cutoff = 8000 /\ sample_rate = 48000 -> 649
      [] OTHER -> 0

\* The loop body of apply_analog_filter at buffer index idx (1-based)
FilterStep(f, idx, adc_channels, hpf_coeff, lpf_coeff) ==
    LET ch == ((idx - 1) % adc_channels) + 1
        x == f.buffer[idx]
        hpf == FMul(hpf_coeff, f.hpf[ch] + x - x)
        lpf == f.lpf[ch] + FMul(lpf_coeff, hpf - f.lpf[ch])
    IN  [ buffer |-> [f.buffer EXCEPT ![idx] = lpf],
          hpf |-> [f.hpf EXCEPT ![ch] = hpf],
          lpf |-> [f.lpf EXCEPT ![ch] = lpf] ]

RECURSIVE FilterLoop(_, _, _, _, _, _)
FilterLoop(f, idx, n, adc_channels, hpf_coeff, lpf_coeff) ==
    IF idx > n THEN f
    ELSE FilterLoop(FilterStep(f, idx, adc_channels, hpf_coeff, lpf_coeff),
                    idx + 1, n, adc_channels, hpf_coeff, lpf_coeff)

\* apply_analog_filter(g_adc_buffer, frames)
apply_analog_filter(m, frames) ==
    LET cfg == m.g_config
        f == FilterLoop([buffer |-> m.g_adc_buffer, hpf |-> m.hpf_state,
                         lpf |-> m.lpf_state],
                        1, frames * cfg.adc_channels, cfg.adc_channels,
                        FilterCoeff(cfg.hpf_cutoff, cfg.sample_rate),
                        FilterCoeff(cfg.lpf_cutoff, cfg.sample_rate))
    IN  [m EXCEPT !.g_adc_buffer = f.buffer, !.hpf_state = f.hpf, !.lpf_state = f.lpf]

RECURSIVE SumOver(_, _, _)
\* the sum of F(buf[i]) for i in lo..Len: here with F the identity
SumOver(buf, i, n) == IF i > n THEN 0 ELSE buf[i] + SumOver(buf, i + 1, n)

RECURSIVE SumSquares(_, _, _)
SumSquares(buf, i, n) == IF i > n THEN 0 ELSE buf[i] * buf[i] + SumSquares(buf, i + 1, n)

RECURSIVE PeakOver(_, _, _)
PeakOver(buf, i, n) == IF i > n THEN 0 ELSE fmaxf(fabsf(buf[i]), PeakOver(buf, i + 1, n))

\* The analog metrics of hybrid_node_process over the first n samples
analog_metrics(m, n) ==
    LET peak == PeakOver(m.g_adc_buffer, 1, n)
    IN  [m EXCEPT !.g_status.analog =
            [ rms_level |-> sqrtf(SumSquares(m.g_adc_buffer, 1, n) \div n),
              peak_level |-> peak,
              dc_offset |-> TDiv(SumOver(m.g_adc_buffer, 1, n), n),
              is_overloaded |-> FGt(peak, SAFETY_OVERLOAD_THRESH) ]]

\* --------------------------------------------------------- metric analyzer

\* cosf / sinf of 2 pi j / n in thousandths, for the window sizes of the model
CosTable(n) ==
    CASE n = 2 -> << 1000, -1000 >>
      [] n = 4 -> << 1000, 0, -1000, 0 >>
      [] n = 6 -> << 1000, 500, -500, -1000, -500, 500 >>
      [] n = 8 -> << 1000, 707, 0, -707, -1000, -707, 0, 707 >>

SinTable(n) ==
    CASE n = 2 -> << 0, 0 >>
      [] n = 4 -> << 0, 1000, 0, -1000 >>
      [] n = 6 -> << 0, 866, 866, 0, -866, -866 >>
      [] n = 8 -> << 0, 707, 1000, 707, 0, -707, -1000, -707 >>

cosf(k, n, size) == CosTable(size)[((k * n) % size) + 1]
sinf(k, n, size) == SinTable(size)[((k * n) % size) + 1]

\* g_fft_input: the first channel of each frame, zero-padded to the window
FftInput(input, frames, adc_channels) ==
    [i \in 0..(HYBRID_FFT_SIZE - 1) |->
        IF i < frames THEN input[i * adc_channels + 1] ELSE 0]

RECURSIVE DftReal(_, _, _)
DftReal(x, k, n) ==
    IF n >= HYBRID_FFT_SIZE THEN 0
    ELSE FMul(x[n], cosf(k, n, HYBRID_FFT_SIZE)) + DftReal(x, k, n + 1)

RECURSIVE DftImag(_, _, _)
DftImag(x, k, n) ==
    IF n >= HYBRID_FFT_SIZE THEN 0
    ELSE DftImag(x, k, n + 1) - FMul(x[n], sinf(k, n, HYBRID_FFT_SIZE))

\* The magnitude of bin k
Magnitude(x, k) ==
    LET real == DftReal(x, k, 0)
        imag == DftImag(x, k, 0)
    IN  sqrtf(real * real + imag * imag)

RECURSIVE WeightedSum(_, _, _)
WeightedSum(x, k, sample_rate) ==
    IF k >= HYBRID_FFT_SIZE \div 2 THEN 0
    ELSE ((k * sample_rate) \div HYBRID_FFT_SIZE) * Magnitude(x, k)
         + WeightedSum(x, k + 1, sample_rate)

RECURSIVE MagnitudeSum(_, _)
MagnitudeSum(x, k) ==
    IF k >= HYBRID_FFT_SIZE \div 2 THEN 0
    ELSE Magnitude(x, k) + MagnitudeSum(x, k + 1)

RECURSIVE ZeroCrossings(_, _, _, _)
ZeroCrossings(input, i, frames, adc_channels) ==
    IF i >= frames THEN 0
    ELSE LET prev == input[(i - 1) * adc_channels + 1]
             curr == input[i * adc_channels + 1]
         IN  (IF (prev >= 0 /\ curr < 0) \/ (prev < 0 /\ curr >= 0) THEN 1 ELSE 0)
             + ZeroCrossings(input, i + 1, frames, adc_channels)

\* dsp_process_fft(g_adc_buffer, frames)
dsp_process_fft(m, frames) ==
    LET cfg == m.g_config
        x == FftInput(m.g_adc_buffer, frames, cfg.adc_channels)
        magnitude_sum == MagnitudeSum(x, 1)
        weighted_sum == WeightedSum(x, 1, cfg.sample_rate)
        centroid == IF magnitude_sum > 0 THEN TDiv(weighted_sum, magnitude_sum)
                    ELSE m.g_status.dsp.spectral_centroid
        flux == fabsf(centroid - m.g_prev_spectral_centroid)
    IN  [m EXCEPT !.g_status.dsp.spectral_centroid = centroid,
                  !.g_status.dsp.spectral_flux = flux,
                  !.g_prev_spectral_centroid = centroid,
                  !.g_status.dsp.zero_crossing_rate =
                      TDiv(ZeroCrossings(m.g_adc_buffer, 1, frames, cfg.adc_channels) * 1000,
                           frames)]

\* Faulty variant of the interval: the division by the peak count is left out
ici_without_peak_division(m) ==
    LET ring == [m.g_ici_buffer EXCEPT ![m.g_ici_index + 1] = m.g_status.dsp.spectral_flux]
        peak_count == Cardinality({i \in 1..ICI_RING : 2 * ring[i] > 1})
        interval_samples == peak_count * m.g_config.buffer_size
        ici == IF peak_count > 1
               THEN TDiv(interval_samples * 1000000, m.g_config.sample_rate)
               ELSE 100000
    IN  [m EXCEPT !.g_ici_buffer = ring,
                  !.g_ici_index = (m.g_ici_index + 1) % ICI_RING,
                  !.g_status.dsp.ici = ici]

\* dsp_calculate_ici(&g_status.dsp.ici)
dsp_calculate_ici(m) ==
    LET ring == [m.g_ici_buffer EXCEPT ![m.g_ici_index + 1] = m.g_status.dsp.spectral_flux]
        \* threshold 0.5 on a flux in whole Hz
        peak_count == Cardinality({i \in 1..ICI_RING : 2 * ring[i] > 1})
        interval_samples == peak_count * m.g_config.buffer_size
        ici == IF peak_count > 1
               THEN TDiv(interval_samples * 1000000, m.g_config.sample_rate * peak_count)
               ELSE 100000
    IN  [m EXCEPT !.g_ici_buffer = ring,
                  !.g_ici_index = (m.g_ici_index + 1) % ICI_RING,
                  !.g_status.dsp.ici = ici]

\* dsp_calculate_coherence(&g_status.dsp.coherence)
dsp_calculate_coherence(m) ==
    LET normalized_flux == fminf(m.g_status.dsp.spectral_flux, 1000)
    IN  [m EXCEPT !.g_status.dsp.coherence = 1000 - normalized_flux]

\* ------------------------------------------------- lifecycle and shutdown

\* bool hybrid_node_init(const HybridNodeConfig *config)
hybrid_node_init(m, config) ==
    IF config = NULL THEN [m EXCEPT !.ret = FALSE]
    ELSE LET cfg == config[1]
             cal == [ZeroCalibration EXCEPT
                        !.adc_gain = [i \in 1..HYBRID_ADC_CHANNELS |-> 1000],
                        !.dac_gain = [i \in 1..HYBRID_DAC_CHANNELS |-> 1000]]
         IN  [m EXCEPT !.g_config = cfg,
                       !.g_status = [ZeroStatus EXCEPT
                                        !.mode = cfg.mode,
                                        !.calibration = cal,
                                        !.safety.status = HYBRID_SAFETY_OK,
                                        !.safety.temperature = 250],
                       !.g_initialized = TRUE,
                       !.ret = TRUE]

\* Faulty variant of hybrid_node_start: the g_running guard is missing
start_without_running_guard(m) ==
    IF ~m.g_initialized THEN [m EXCEPT !.ret = FALSE]
    ELSE [m EXCEPT !.g_status.stats.frames_processed = 0,
                   !.g_status.stats.frames_dropped = 0,
                   !.g_status.stats.uptime_ms = 0,
                   !.g_running = TRUE,
                   !.g_status.is_running = TRUE,
                   !.ret = TRUE]

\* bool hybrid_node_start(void)
hybrid_node_start(m) ==
    IF ~m.g_initialized \/ m.g_running THEN [m EXCEPT !.ret = FALSE]
    ELSE [m EXCEPT !.g_status.stats.frames_processed = 0,
                   !.g_status.stats.frames_dropped = 0,
                   !.g_status.stats.uptime_ms = 0,
                   !.g_running = TRUE,
                   !.g_status.is_running = TRUE,
                   !.ret = TRUE]

\* Faulty variant of hybrid_node_stop: the zeroed buffer is not written out
stop_without_port_write(m) ==
    IF ~m.g_running THEN [m EXCEPT !.ret = FALSE]
    ELSE [m EXCEPT !.g_running = FALSE,
                   !.g_status.is_running = FALSE,
                   !.g_dac_buffer = Zeros(Len(m.g_dac_buffer)),
                   !.ret = TRUE]

\* bool hybrid_node_stop(void)
hybrid_node_stop(m) ==
    IF ~m.g_running THEN [m EXCEPT !.ret = FALSE]
    ELSE LET m1 == [m EXCEPT !.g_running = FALSE,
                             !.g_status.is_running = FALSE,
                             !.g_dac_buffer = Zeros(Len(m.g_dac_buffer))]
         IN  [platform_dac_write(m1, m1.g_dac_buffer) EXCEPT !.ret = TRUE]

\* Faulty variant of hybrid_node_emergency_shutdown: cv1 and cv2 are left as
\* they were
shutdown_keeping_voltages(m) ==
    LET m1 == hybrid_node_stop(m)
        m2 == [m1 EXCEPT !.g_status.safety.status = HYBRID_SAFETY_FAULT,
                         !.g_dac_buffer = Zeros(Len(m1.g_dac_buffer))]
    IN  [platform_dac_write(m2, m2.g_dac_buffer) EXCEPT !.ret = TRUE]

\* bool hybrid_node_emergency_shutdown(const char *reason)
hybrid_node_emergency_shutdown(m) ==
    LET m1 == hybrid_node_stop(m)
        m2 == [m1 EXCEPT !.g_status.safety.status = HYBRID_SAFETY_FAULT,
                         !.g_dac_buffer = Zeros(Len(m1.g_dac_buffer))]
        m3 == platform_dac_write(m2, m2.g_dac_buffer)
    IN  [m3 EXCEPT !.g_status.control.cv1 = 0,
                   !.g_status.control.cv2 = 0,
                   !.ret = TRUE]

\* bool hybrid_node_get_status(HybridNodeStatus *status): what a caller with a
\* non-null pointer gets, a copy of g_status
hybrid_node_get_status(m) == m.g_status

\* ----------------------------------------------------------- safety monitor

\* Faulty variant of the thermal branch: the critical branch sets the status
\* without the shutdown
thermal_check_without_shutdown(m, temp_raw) ==
    IF m.platform = "TEENSY" /\ m.g_config.enable_thermal_monitor
    THEN LET m1 == [m EXCEPT !.g_status.safety.temperature = temp_raw]
         IN  IF FGt(temp_raw, SAFETY_TEMP_CRITICAL)
             THEN [m1 EXCEPT !.g_status.safety.status = HYBRID_SAFETY_TEMP_CRITICAL]
             ELSE IF FGt(temp_raw, SAFETY_TEMP_WARNING)
             THEN [m1 EXCEPT !.g_status.safety.thermal_warning = TRUE,
                             !.g_status.safety.status = HYBRID_SAFETY_TEMP_WARNING]
             ELSE m1
    ELSE m

\* The thermal branch of safety_check, compiled on TEENSY only; temp_raw is
\* what analogRead returns
thermal_check(m, temp_raw) ==
    IF m.platform = "TEENSY" /\ m.g_config.enable_thermal_monitor
    THEN LET m1 == [m EXCEPT !.g_status.safety.temperature = temp_raw]
         IN  IF FGt(temp_raw, SAFETY_TEMP_CRITICAL)
             THEN [hybrid_node_emergency_shutdown(m1) EXCEPT
                      !.g_status.safety.status = HYBRID_SAFETY_TEMP_CRITICAL]
             ELSE IF FGt(temp_raw, SAFETY_TEMP_WARNING)
             THEN [m1 EXCEPT !.g_status.safety.thermal_warning = TRUE,
                             !.g_status.safety.status = HYBRID_SAFETY_TEMP_WARNING]
             ELSE m1
    ELSE m

\* The overload branch of safety_check
overload_check(m) ==
    IF m.g_status.analog.is_overloaded
    THEN LET m1 == [m EXCEPT !.g_status.safety.overload_count = @ + 1]
         IN  IF FGt(m1.g_config.preamp_gain, ANALOG_PREAMP_GAIN_MIN)
             THEN [m1 EXCEPT !.g_config.preamp_gain = FMul(@, 900)]
             ELSE m1
    ELSE m

\* The voltage-clamp branch of safety_check
clamp_check(m) ==
    IF m.g_config.enable_voltage_clamp
       /\ (\/ FGe(m.g_status.control.cv1, SAFETY_VOLTAGE_MAX)
           \/ FGe(m.g_status.control.cv2, SAFETY_VOLTAGE_MAX))
    THEN [m EXCEPT !.g_status.safety.clamp_count = @ + 1,
                   !.g_status.safety.status = HYBRID_SAFETY_VOLTAGE_CLAMP]
    ELSE m

\* static void safety_check()
safety_check(m, temp_raw) ==
    Then(overload_check(m), LAMBDA m1 :
    Then(thermal_check(m1, temp_raw), LAMBDA m2 :
    clamp_check(m2)))

\* -------------------------------------------------- control-loop modulator

\* Faulty variant of the clamp: the lower bound is not applied
ClampAboveOnly(v) == fminf(v, SAFETY_VOLTAGE_MAX)

\* fminf(fmaxf(v, SAFETY_VOLTAGE_MIN), SAFETY_VOLTAGE_MAX)
ClampVoltage(v) == fminf(fmaxf(v, SAFETY_VOLTAGE_MIN), SAFETY_VOLTAGE_MAX)

\* static void apply_control_voltage()
apply_control_voltage(m) ==
    LET c == m.g_status.control
        depth == m.g_config.modulation_depth
        depth_factor == FMul(c.phi_depth, m.g_status.dsp.coherence)
        raw1 == FMul(FMul(depth_factor, SAFETY_VOLTAGE_MAX), depth)
        rate_factor == FDiv(1000000, fmaxf(m.g_status.dsp.ici, 10000))
        raw2 == FMul(FMul(fminf(rate_factor, 1000), SAFETY_VOLTAGE_MAX), depth)
        cv1 == IF m.g_config.enable_voltage_clamp THEN ClampVoltage(raw1) ELSE raw1
        cv2 == IF m.g_config.enable_voltage_clamp THEN ClampVoltage(raw2) ELSE raw2
        target_cv1 == FMul(c.phi_depth, SAFETY_VOLTAGE_MAX)
        error == FDiv(fabsf(FSub(cv1, target_cv1)), SAFETY_VOLTAGE_MAX)
    IN  [m EXCEPT !.g_status.control.cv1 = cv1,
                  !.g_status.control.cv2 = cv2,
                  !.g_status.safety.voltage_out[3] = cv1,
                  !.g_status.safety.voltage_out[4] = cv2,
                  !.g_status.stats.modulation_fidelity = FMul(FSub(1000, error), 100000)]

\* bool hybrid_node_get_dsp_metrics(DSPMetrics *metrics): the caller's structure
hybrid_node_get_dsp_metrics(m) == m.g_status.dsp

\* bool hybrid_node_get_safety(SafetyTelemetry *telemetry): the caller's structure
hybrid_node_get_safety(m) == m.g_status.safety

\* bool hybrid_node_set_control_voltage(const ControlVoltage *cv)
hybrid_node_set_control_voltage(m, cv) ==
    IF cv = NULL THEN [m EXCEPT !.ret = FALSE]
    ELSE LET v == cv[1]
             clamp == m.g_config.enable_voltage_clamp
         IN  [m EXCEPT !.g_status.control.cv1 = IF clamp THEN ClampVoltage(v.cv1) ELSE v.cv1,
                       !.g_status.control.cv2 = IF clamp THEN ClampVoltage(v.cv2) ELSE v.cv2,
                       !.g_status.control.phi_phase = v.phi_phase,
                       !.g_status.control.phi_depth = v.phi_depth,
                       !.ret = TRUE]

\* bool hybrid_node_set_preamp_gain(float gain)
hybrid_node_set_preamp_gain(m, gain) ==
    IF FLt(gain, ANALOG_PREAMP_GAIN_MIN) \/ FGt(gain, ANALOG_PREAMP_GAIN_MAX)
    THEN [m EXCEPT !.ret = FALSE]
    ELSE [m EXCEPT !.g_config.preamp_gain = gain, !.ret = TRUE]

\* --------------------------------------------------------------- the cycle

\* memcpy(g_adc_buffer, input, frames * adc_channels * sizeof(float))
CopyInput(m, input, frames) ==
    [m EXCEPT !.g_adc_buffer =
        [i \in 1..Len(m.g_adc_buffer) |->
            IF i <= frames * m.g_config.adc_channels THEN input[i] ELSE m.g_adc_buffer[i]]]

\* The DSP block that does not look at the safety status
dsp_block_ignoring_status(m, frames, start_us) ==
    IF m.g_config.enable_dsp
    THEN Then(dsp_process_fft(m, frames), LAMBDA m1 :
         Then(IF m.g_config.enable_ici THEN dsp_calculate_ici(m1) ELSE m1, LAMBDA m2 :
         Then(IF m.g_config.enable_coherence THEN dsp_calculate_coherence(m2) ELSE m2, LAMBDA m3 :
         [m3 EXCEPT !.g_status.dsp.timestamp_us =
                        IF m.platform = "TEENSY" THEN start_us ELSE 0])))
    ELSE m

\* The DSP block of hybrid_node_process; start_us is 0 except on TEENSY
dsp_block(m, frames, start_us) ==
    IF m.g_config.enable_dsp /\ m.g_status.safety.status = HYBRID_SAFETY_OK
    THEN Then(dsp_process_fft(m, frames), LAMBDA m1 :
         Then(IF m.g_config.enable_ici THEN dsp_calculate_ici(m1) ELSE m1, LAMBDA m2 :
         Then(IF m.g_config.enable_coherence THEN dsp_calculate_coherence(m2) ELSE m2, LAMBDA m3 :
         [m3 EXCEPT !.g_status.dsp.timestamp_us =
                        IF m.platform = "TEENSY" THEN start_us ELSE 0])))
    ELSE m

\* The copy to the output buffer: audio in channels 0-1, control voltages in 2-3
CopyOutput(m, out, frames) ==
    LET adc == m.g_config.adc_channels
        dac == m.g_config.dac_channels
        c == m.g_status.control
    IN  [j \in 1..Len(out) |->
            LET i == (j - 1) \div dac
                ch == (j - 1) % dac
            IN  IF i >= frames THEN out[j]
                ELSE IF ch = 0 THEN m.g_adc_buffer[i * adc + 1]
                ELSE IF ch = 1 /\ adc > 1 THEN m.g_adc_buffer[i * adc + 2]
                ELSE IF ch = 2 /\ dac > 2 THEN c.cv1
                ELSE IF ch = 3 /\ dac > 2 THEN c.cv2
                ELSE out[j]]

\* The latency statistics at the end of hybrid_node_process, compiled on TEENSY
latency_stats(m, frames, latency_us) ==
    IF m.platform = "TEENSY"
    THEN [m EXCEPT !.g_status.calibration.total_latency_us = latency_us,
                   !.g_status.stats.cpu_load =
                       TDiv(latency_us * 100 * m.g_config.sample_rate, frames * 1000000)]
    ELSE m

\* Faulty variant of the frame count: a cycle that shut the node down is not
\* counted
count_frame_while_running(m) ==
    IF m.g_running THEN [m EXCEPT !.g_status.stats.frames_processed = @ + 1] ELSE m

\* g_status.stats.frames_processed++ at the end of a cycle
count_frame(m) ==
    [m EXCEPT !.g_status.stats.frames_processed = @ + 1]

\* The cycle that modulates before its safety check
cycle_modulating_before_check(m, input, out, frames, temp_raw, start_us, latency_us) ==
    Then(CopyInput(m, input[1], frames), LAMBDA m1 :
    Then(IF m1.g_config.enable_analog_filter
         THEN apply_analog_filter(m1, frames) ELSE m1, LAMBDA m2 :
    Then(analog_metrics(m2, frames * m2.g_config.adc_channels), LAMBDA m3 :
    Then(IF m3.g_config.enable_modulation THEN apply_control_voltage(m3) ELSE m3, LAMBDA m4 :
    Then(safety_check(m4, temp_raw), LAMBDA m5 :
    Then(dsp_block(m5, frames, start_us), LAMBDA m6 :
    Then([m6 EXCEPT !.output = Ptr(CopyOutput(m6, out[1], frames))], LAMBDA m7 :
    Then(count_frame(m7), LAMBDA m8 :
    [latency_stats(m8, frames, latency_us) EXCEPT !.ret = TRUE]))))))))

\* The body of hybrid_node_process after its guard: one cycle
process_cycle(m, input, out, frames, temp_raw, start_us, latency_us) ==
    Then(CopyInput(m, input[1], frames), LAMBDA m1 :
    Then(IF m1.g_config.enable_analog_filter
         THEN apply_analog_filter(m1, frames) ELSE m1, LAMBDA m2 :
    Then(analog_metrics(m2, frames * m2.g_config.adc_channels), LAMBDA m3 :
    Then(safety_check(m3, temp_raw), LAMBDA m4 :
    Then(dsp_block(m4, frames, start_us), LAMBDA m5 :
    Then(IF m5.g_config.enable_modulation THEN apply_control_voltage(m5) ELSE m5, LAMBDA m6 :
    Then([m6 EXCEPT !.output = Ptr(CopyOutput(m6, out[1], frames))], LAMBDA m7 :
    Then(count_frame(m7), LAMBDA m8 :
    [latency_stats(m8, frames, latency_us) EXCEPT !.ret = TRUE]))))))))

\* Stage k of the body of hybrid_node_process, in the order of process_cycle
CycleStage(k, m, input, out, frames, temp_raw, start_us, latency_us) ==
    CASE k = 1 -> CopyInput(m, input[1], frames)
      [] k = 2 -> IF m.g_config.enable_analog_filter
                  THEN apply_analog_filter(m, frames) ELSE m
      [] k = 3 -> analog_metrics(m, frames * m.g_config.adc_channels)
      [] k = 4 -> safety_check(m, temp_raw)
      [] k = 5 -> dsp_block(m, frames, start_us)
      [] k = 6 -> IF m.g_config.enable_modulation THEN apply_control_voltage(m) ELSE m
      [] k = 7 -> [m EXCEPT !.output = Ptr(CopyOutput(m, out[1], frames))]
      [] k = 8 -> count_frame(m)
      [] k = 9 -> [latency_stats(m, frames, latency_us) EXCEPT !.ret = TRUE]

LastStage == 9

\* The machine at the end of the cycle of which stages k.. are still to run
RECURSIVE FinishCycle(_, _, _, _, _, _, _, _)
FinishCycle(k, m, input, out, frames, temp_raw, start_us, latency_us) ==
    IF k > LastStage THEN m
    ELSE FinishCycle(k + 1,
                     CycleStage(k, m, input, out, frames, temp_raw, start_us, latency_us),
                     input, out, frames, temp_raw, start_us, latency_us)

\* Faulty variant of hybrid_node_process: a refused call is counted as a
\* dropped frame
process_counting_dropped(m, input, out, frames, temp_raw, start_us, latency_us) ==
    IF ~m.g_running \/ input = NULL \/ out = NULL
    THEN [m EXCEPT !.ret = FALSE, !.output = out,
                   !.g_status.stats.frames_dropped = @ + 1]
    ELSE process_cycle(m, input, out, frames, temp_raw, start_us, latency_us)

\* bool hybrid_node_process(const float *input, float *output, size_t frames);
\* temp_raw, start_us and latency_us are what analogRead and micros give on TEENSY
hybrid_node_process(m, input, out, frames, temp_raw, start_us, latency_us) ==
    IF ~m.g_running \/ input = NULL \/ out = NULL
    THEN [m EXCEPT !.ret = FALSE, !.output = out]
    ELSE process_cycle(m, input, out, frames, temp_raw, start_us, latency_us)

\* ------------------------------------------------------------- calibration

\* platform_adc_read(g_adc_buffer, frames): the Teensy and Pi builds leave the
\* buffer as it is, the other builds zero its first frames * adc_channels floats
platform_adc_read(m, frames) ==
    IF m.platform = "TEENSY" THEN m
    ELSE [m EXCEPT !.g_adc_buffer =
            [i \in DOMAIN @ |-> IF i <= frames * m.g_config.adc_channels THEN 0 ELSE @[i]]]

\* adc_samples[ch][sample]: the mean of channel ch (from 0) over the buffer
ChannelMean(m, ch) ==
    IF m.g_config.buffer_size = 0 THEN NaN
    ELSE TDiv(SumOver([i \in 1..m.g_config.buffer_size |->
                          m.g_adc_buffer[(i - 1) * m.g_config.adc_channels + ch + 1]],
                      1, m.g_config.buffer_size),
              m.g_config.buffer_size)

\* calibration->adc_offset: minus the average of CAL_SAMPLES channel means, for
\* the channels of the configuration; the other entries stay the caller's
measure_adc_offset(m, cal) ==
    [cal EXCEPT !.adc_offset =
        [ch \in DOMAIN @ |->
            IF ch <= m.g_config.adc_channels
            THEN LET mean == ChannelMean(m, ch - 1)
                 IN  IF IsNaN(mean) THEN NaN
                     ELSE -TDiv(CAL_SAMPLES * mean, CAL_SAMPLES)
            ELSE @[ch]]]

\* calibration->dac_gain / dac_offset: 1.0 and 0.0 for the configured channels
default_dac_calibration(m, cal) ==
    [cal EXCEPT !.dac_gain = [ch \in DOMAIN @ |->
                                IF ch <= m.g_config.dac_channels THEN 1000 ELSE @[ch]],
                !.dac_offset = [ch \in DOMAIN @ |->
                                IF ch <= m.g_config.dac_channels THEN 0 ELSE @[ch]]]

\* The loopback: an impulse in g_dac_buffer goes to the port, the input is read
loopback(m) ==
    Then([m EXCEPT !.g_dac_buffer = [i \in DOMAIN @ |-> IF i = 1 THEN 1000 ELSE 0]],
         LAMBDA m1 :
    Then(platform_dac_write(m1, m1.g_dac_buffer), LAMBDA m2 :
         platform_adc_read(m2, m2.g_config.buffer_size)))

\* calibration->total_latency_us and the three component latencies; measured is
\* end_us - start_us of the Teensy build
latency_calibration(m, cal, measured) ==
    LET total == IF m.platform = "TEENSY" THEN measured ELSE 2000
    IN  [cal EXCEPT !.total_latency_us = total,
                    !.adc_latency_us = total \div 3,
                    !.dsp_latency_us = total \div 3,
                    !.dac_latency_us = total \div 3]

\* Faulty variant of the latency check: a latency of exactly the budget fails
meets_sc001_below_budget(cal) == cal.total_latency_us < 2000

\* bool meets_sc001 and the line printed from it
meets_sc001(cal) == cal.total_latency_us <= 2000

\* Faulty variant of the calibration guard: a running node is calibrated too
calibrate_refused_unguarded(m, calibration) == calibration = NULL

\* if (calibration == NULL || g_running) return false;
calibrate_refused(m, calibration) == calibration = NULL \/ m.g_running

\* bool hybrid_node_calibrate(CalibrationData *calibration); the caller's struct
\* after the call is the machine's output.  now is time(NULL).
hybrid_node_calibrate(m, calibration, measured, now) ==
    IF calibrate_refused(m, calibration)
    THEN [m EXCEPT !.ret = FALSE, !.output = calibration]
    ELSE
    Then(platform_adc_read(m, m.g_config.buffer_size), LAMBDA m1 :
    Then(default_dac_calibration(m1, measure_adc_offset(m1, calibration[1])),
         LAMBDA cal1 :
    Then(loopback(m1), LAMBDA m2 :
    Then([latency_calibration(m2, cal1, measured) EXCEPT
              !.calibration_timestamp = now, !.is_calibrated = TRUE], LAMBDA cal2 :
         [m2 EXCEPT !.sc001 = IF meets_sc001(cal2) THEN "PASS" ELSE "FAIL",
                    !.g_status.calibration = cal2,
                    !.g_status.is_calibrated = TRUE,
                    !.output = Ptr(cal2),
                    !.ret = TRUE]))))

\* The load that marks the node calibrated whatever the profile says
load_marking_calibrated(m, calibration) ==
    IF calibration = NULL THEN [m EXCEPT !.ret = FALSE, !.output = calibration]
    ELSE [m EXCEPT !.g_status.calibration = calibration[1],
                   !.g_status.is_calibrated = TRUE,
                   !.output = calibration,
                   !.ret = TRUE]

\* bool hybrid_node_load_calibration(const CalibrationData *calibration)
hybrid_node_load_calibration(m, calibration) ==
    IF calibration = NULL THEN [m EXCEPT !.ret = FALSE, !.output = calibration]
    ELSE [m EXCEPT !.g_status.calibration = calibration[1],
                   !.g_status.is_calibrated = calibration[1].is_calibrated,
                   !.output = calibration,
                   !.ret = TRUE]

\* fopen(filename, "wb"): fails where the directory does not exist, and
\* otherwise leaves an empty file
CanCreate(filename) == filename # "/nodir/cal.bin"

\* bool hybrid_node_save_calibration(const char *filename); written is what
\* fwrite returns (0 when the device took no record)
hybrid_node_save_calibration(m, filename, written) ==
    IF filename = NULL \/ ~m.g_status.is_calibrated THEN [m EXCEPT !.ret = FALSE]
    ELSE IF ~CanCreate(filename[1]) THEN [m EXCEPT !.ret = FALSE]
    ELSE [m EXCEPT !.files = (filename[1] :>
                                 IF written = 1
                                 THEN CalibrationWords(m.g_status.calibration)
                                 ELSE << >>) @@ @,
                   !.ret = (written = 1)]

\* Faulty variant of load_calibration_file: a record that fread filled in part
\* (the rest stays zero) is loaded too
load_calibration_file_partial(m, filename) ==
    IF filename = NULL THEN [m EXCEPT !.ret = FALSE]
    ELSE IF filename[1] \notin DOMAIN m.files THEN [m EXCEPT !.ret = FALSE]
    ELSE LET w == m.files[filename[1]]
         IN  [hybrid_node_load_calibration(m,
                  Ptr(CalibrationOfWords([i \in 1..CalibrationSize |->
                                             IF i <= Len(w) THEN w[i] ELSE 0])))
              EXCEPT !.output = << >>]

\* bool hybrid_node_load_calibration_file(const char *filename): fread gives one
\* record when the file holds at least sizeof(CalibrationData) bytes
hybrid_node_load_calibration_file(m, filename) ==
    IF filename = NULL THEN [m EXCEPT !.ret = FALSE]
    ELSE IF filename[1] \notin DOMAIN m.files THEN [m EXCEPT !.ret = FALSE]
    ELSE IF Len(m.files[filename[1]]) >= CalibrationSize
         THEN [hybrid_node_load_calibration(m,
                   Ptr(CalibrationOfWords(SubSeq(m.files[filename[1]], 1, CalibrationSize))))
               EXCEPT !.output = << >>]
         ELSE [m EXCEPT !.ret = FALSE]

\* Faulty variant of reset_statistics: the safety counters are cleared with the
\* statistics
reset_statistics_clearing_safety(m) ==
    [m EXCEPT !.g_status.stats.frames_processed = 0,
              !.g_status.stats.frames_dropped = 0,
              !.g_status.safety.overload_count = 0,
              !.g_status.safety.clamp_count = 0,
              !.ret = TRUE]

\* bool hybrid_node_reset_statistics(void)
hybrid_node_reset_statistics(m) ==
    [m EXCEPT !.g_status.stats.frames_processed = 0,
              !.g_status.stats.frames_dropped = 0,
              !.g_status.stats.uptime_ms = 0,
              !.g_status.stats.drift_ppm = 0,
              !.ret = TRUE]

\* bool hybrid_node_set_mode(HybridNodeMode mode)
hybrid_node_set_mode(m, mode) ==
    IF m.g_running THEN [m EXCEPT !.ret = FALSE]
    ELSE [m EXCEPT !.g_config.mode = mode, !.g_status.mode = mode, !.ret = TRUE]

\* ------------------------------------------------------------ the I2S bridge

\* A float of the bridge is the four bytes it has in memory, least significant
\* first; an int32_t is an integer from -2^31 to 2^31 - 1.
\* union { float f; int32_t i; }: what i reads after f was written
UnionInt(f) ==
    f[1] + 256 * f[2] + 65536 * f[3] +
    16777216 * (IF f[4] >= 128 THEN f[4] - 256 ELSE f[4])

\* union { float f; int32_t i; }: what f reads after i was written
UnionFloat(i) ==
    LET top == i \div 16777216
        low == i - top * 16777216
    IN  << low % 256, (low \div 256) % 256, low \div 65536, top % 256 >>

\* The statics of the bridge as one value, at the entry of a call
Bridge ==
    [ platform |-> platform, g_config |-> i2s_g_config, g_stats |-> g_stats,
      g_initialized |-> i2s_g_initialized, g_running |-> i2s_g_running,
      g_tx_buffer |-> g_tx_buffer, g_rx_buffer |-> g_rx_buffer,
      sent |-> sent, delivered |-> delivered,
      output |-> << >>, ret |-> FALSE ]

\* The statics after a call that left the bridge as b; the node is not touched
CommitBridge(b) ==
    /\ i2s_g_config' = b.g_config
    /\ g_stats' = b.g_stats
    /\ i2s_g_initialized' = b.g_initialized
    /\ i2s_g_running' = b.g_running
    /\ g_tx_buffer' = b.g_tx_buffer
    /\ g_rx_buffer' = b.g_rx_buffer
    /\ sent' = b.sent
    /\ delivered' = b.delivered
    /\ output' = b.output
    /\ ret' = b.ret
    /\ port_writes' = << >>
    /\ sc001' = ""
    /\ UNCHANGED << node, files, saved, cycle, snapshot, peripherals >>

\* Faulty variant of the encoder: channel 7 carries the criticality whatever the
\* sequence number
encode_ignoring_parity(frame, metrics) ==
    [idx \in DOMAIN frame |->
        CASE idx > I2S_BUFFER_SIZE * I2S_CHANNELS -> frame[idx]
          [] (idx - 1) % I2S_CHANNELS = 4 -> UnionInt(metrics.phi_phase)
          [] (idx - 1) % I2S_CHANNELS = 5 -> UnionInt(metrics.phi_depth)
          [] (idx - 1) % I2S_CHANNELS = 6 -> UnionInt(metrics.coherence)
          [] (idx - 1) % I2S_CHANNELS = 7 -> UnionInt(metrics.criticality)
          [] OTHER -> frame[idx]]

\* static void encode_metrics_to_frame(int32_t *frame, const ... *metrics)
encode_metrics_to_frame(frame, metrics) ==
    LET extra == IF metrics.sequence % 2 = 0 THEN metrics.criticality ELSE metrics.ici
    IN  [idx \in DOMAIN frame |->
            CASE idx > I2S_BUFFER_SIZE * I2S_CHANNELS -> frame[idx]
              [] (idx - 1) % I2S_CHANNELS = 4 -> UnionInt(metrics.phi_phase)
              [] (idx - 1) % I2S_CHANNELS = 5 -> UnionInt(metrics.phi_depth)
              [] (idx - 1) % I2S_CHANNELS = 6 -> UnionInt(metrics.coherence)
              [] (idx - 1) % I2S_CHANNELS = 7 -> UnionInt(extra)
              [] OTHER -> frame[idx]]

\* Faulty variant of the decoder: the third slot is read for the depth too
decode_reading_wrong_slot(frame, metrics) ==
    LET m1 == [metrics EXCEPT !.phi_phase = UnionFloat(frame[5]),
                              !.phi_depth = UnionFloat(frame[7]),
                              !.coherence = UnionFloat(frame[7])]
    IN  IF metrics.sequence % 2 = 0
        THEN [m1 EXCEPT !.criticality = UnionFloat(frame[8])]
        ELSE [m1 EXCEPT !.ici = UnionFloat(frame[8])]

\* static void decode_metrics_from_frame(const int32_t *frame, ... *metrics):
\* the caller's structure after the call (frame[4..7] are at 5..8 here)
decode_metrics_from_frame(frame, metrics) ==
    LET m1 == [metrics EXCEPT !.phi_phase = UnionFloat(frame[5]),
                              !.phi_depth = UnionFloat(frame[6]),
                              !.coherence = UnionFloat(frame[7])]
    IN  IF metrics.sequence % 2 = 0
        THEN [m1 EXCEPT !.criticality = UnionFloat(frame[8])]
        ELSE [m1 EXCEPT !.ici = UnionFloat(frame[8])]

\* static bool platform_i2s_init(): the stub of the other platforms fails
platform_i2s_init(b) == b.platform = "TEENSY"

\* static bool platform_dma_start()
platform_dma_start(b) == b.platform = "TEENSY"

\* Faulty variant of init: the bridge is marked initialised before the
\* platform initialisation is tried
init_marking_before_platform(b, config) ==
    IF config = NULL THEN [b EXCEPT !.ret = FALSE]
    ELSE Then([b EXCEPT !.g_config = config[1],
                        !.g_stats = ZeroStatistics,
                        !.g_initialized = TRUE], LAMBDA b1 :
         IF ~platform_i2s_init(b1) THEN [b1 EXCEPT !.ret = FALSE]
         ELSE [b1 EXCEPT !.g_stats.link_status = I2S_LINK_SYNCING,
                         !.ret = TRUE])

\* bool i2s_bridge_init(const I2SBridgeConfig *config)
i2s_bridge_init(b, config) ==
    IF config = NULL THEN [b EXCEPT !.ret = FALSE]
    ELSE Then([b EXCEPT !.g_config = config[1],
                        !.g_stats = ZeroStatistics], LAMBDA b1 :
         IF ~platform_i2s_init(b1) THEN [b1 EXCEPT !.ret = FALSE]
         ELSE [b1 EXCEPT !.g_initialized = TRUE,
                         !.g_stats.link_status = I2S_LINK_SYNCING,
                         !.ret = TRUE])

\* bool i2s_bridge_start(void)
i2s_bridge_start(b) ==
    IF ~b.g_initialized \/ b.g_running THEN [b EXCEPT !.ret = FALSE]
    ELSE IF ~platform_dma_start(b) THEN [b EXCEPT !.ret = FALSE]
    ELSE [b EXCEPT !.g_running = TRUE,
                   !.g_stats.link_status = I2S_LINK_STABLE,
                   !.g_stats.uptime_ms = 0,
                   !.ret = TRUE]

\* bool i2s_bridge_stop(void)
i2s_bridge_stop(b) ==
    IF ~b.g_running THEN [b EXCEPT !.ret = FALSE]
    ELSE [b EXCEPT !.g_running = FALSE,
                   !.g_stats.link_status = I2S_LINK_DISCONNECTED,
                   !.ret = TRUE]

\* Faulty variant of transmit: the audio is copied before the metrics pointer
\* is tested
transmit_copying_before_guard(b, audio_data, metrics) ==
    IF ~b.g_running \/ audio_data = NULL
    THEN [b EXCEPT !.ret = FALSE, !.output = << audio_data, metrics >>]
    ELSE IF metrics = NULL
    THEN [b EXCEPT !.g_tx_buffer = audio_data[1], !.sent = NULL,
                   !.ret = FALSE, !.output = << audio_data, metrics >>]
    ELSE [b EXCEPT !.g_tx_buffer = encode_metrics_to_frame(audio_data[1], metrics[1]),
                   !.g_stats.frames_transmitted = @ + 1,
                   !.sent = metrics,
                   !.output = << audio_data, metrics >>,
                   !.ret = TRUE]

\* bool i2s_bridge_transmit(const int32_t *audio_data, const ... *metrics); the
\* caller's two structures after the call are the output
i2s_bridge_transmit(b, audio_data, metrics) ==
    IF ~b.g_running \/ audio_data = NULL \/ metrics = NULL
    THEN [b EXCEPT !.ret = FALSE, !.output = << audio_data, metrics >>]
    ELSE [b EXCEPT !.g_tx_buffer = encode_metrics_to_frame(audio_data[1], metrics[1]),
                   !.g_stats.frames_transmitted = @ + 1,
                   !.sent = metrics,
                   !.output = << audio_data, metrics >>,
                   !.ret = TRUE]

\* bool i2s_bridge_receive(int32_t *audio_data, ConsciousnessMetrics *metrics);
\* the caller's two structures after the call are the output
i2s_bridge_receive(b, audio_data, metrics) ==
    IF ~b.g_running \/ audio_data = NULL \/ metrics = NULL
    THEN [b EXCEPT !.ret = FALSE, !.output = << audio_data, metrics >>]
    ELSE [b EXCEPT !.output = << Ptr(b.g_rx_buffer),
                                Ptr(decode_metrics_from_frame(b.g_rx_buffer,
                                                              metrics[1])) >>,
                   !.g_stats.frames_received = @ + 1,
                   !.ret = TRUE]

\* The link (DMA out, wire, DMA in of the peer or of the loopback): the frame in
\* g_tx_buffer arrives in g_rx_buffer
deliver(b) ==
    [b EXCEPT !.g_rx_buffer = b.g_tx_buffer, !.delivered = b.sent]

\* ---------------------------------------------------------- the sync pulse

\* c + 1 in uint32_t
U32Inc(c) ==
    IF c.lo = 65535 THEN U32((c.hi + 1) % 65536, 0) ELSE U32(c.hi, c.lo + 1)

\* Faulty variant of the subtraction: the halves are subtracted without the
\* borrow from the upper half
U32SubWithoutBorrow(a, b) ==
    U32((a.hi - b.hi) % 65536, (a.lo - b.lo) % 65536)

\* a - b in uint32_t (modulo 2^32)
U32Sub(a, b) ==
    U32((a.hi - b.hi - (IF a.lo < b.lo THEN 1 ELSE 0)) % 65536,
        (a.lo - b.lo) % 65536)

\* (float)c: exact below 2^24, which the windows of the model stay under
U32ToFloat(c) == c.hi * 65536 + c.lo

\* void sync_pulse_isr(): the pin toggle is not modelled
sync_pulse_isr(y) ==
    [y EXCEPT !.g_sync_counter = U32Inc(@), !.pulses = @ + 1]

\* bool i2s_bridge_set_gpio_sync(bool enable)
i2s_bridge_set_gpio_sync(b, enable) ==
    [b EXCEPT !.g_config.enable_gpio_sync = enable, !.ret = TRUE]

\* i2s_bridge_calibrate_drift returns 0 at once when the sync pulse is disabled
\* and on a build without one
drift_not_measured(b) ==
    ~b.g_config.enable_gpio_sync \/ b.platform # "TEENSY"

\* i2s_bridge_calibrate_drift up to delay(1000): the count at the start of the
\* window is read; pulses counts the interrupts taken since
drift_window_open(y) ==
    [y EXCEPT !.pc = "delay", !.start_count = y.g_sync_counter, !.pulses = 0]

\* i2s_bridge_calibrate_drift after delay(1000): drift_ppm, in ppm, from the
\* count at the end of the window
drift_ppm(y) ==
    LET end_count == y.g_sync_counter
        actual_pulses == U32Sub(end_count, y.start_count)
    IN  (U32ToFloat(actual_pulses) - 1000) * 1000

\* ----------------------------------------------------------- the phi sensor

\* static bool platform_adc_init(): the stub of a build without ADC returns false
phi_platform_adc_init(p) == p = "TEENSY"

\* The end of a sensor function.  phi_sensor_set_sample_rate ignores what the
\* stop and the start it calls return: after the stop it goes on to the start,
\* after the start it returns true.  phi_sensor_calibrate goes on to its
\* sample loop after the start it calls, takes the voltages of a sample its
\* read returned into v_min and v_max, and returns true after the stop: its
\* locals are gone then
SensorReturn(s, result) ==
    IF s.call = "phi_sensor_set_sample_rate" /\ s.pc \in {"stop", "stop_running"}
    THEN [s EXCEPT !.pc = "start"]
    ELSE IF s.call = "phi_sensor_calibrate"
              /\ s.pc \in {"start", "start_running", "start_counter"}
    THEN [s EXCEPT !.pc = "cal_loop"]
    ELSE IF s.call = "phi_sensor_calibrate" /\ s.pc = "read_clear"
    THEN [s EXCEPT !.v_min = IF result
                             THEN [ ch \in Channels |->
                                      IF FLt(s.data[1].voltage[ch], s.v_min[ch])
                                      THEN s.data[1].voltage[ch] ELSE s.v_min[ch] ]
                             ELSE @,
                   !.v_max = IF result
                             THEN [ ch \in Channels |->
                                      IF FGt(s.data[1].voltage[ch], s.v_max[ch])
                                      THEN s.data[1].voltage[ch] ELSE s.v_max[ch] ]
                             ELSE @,
                   !.pc = "cal_loop"]
    ELSE IF s.call = "phi_sensor_calibrate"
    THEN [s EXCEPT !.pc = "idle", !.ret = TRUE,
                   !.was_running = FALSE, !.duration_ms = 0, !.data = << >>,
                   !.v_min = PerChannel(0), !.v_max = PerChannel(0)]
    ELSE [s EXCEPT !.pc = "idle",
                   !.ret = IF s.call = "phi_sensor_set_sample_rate" THEN TRUE
                           ELSE result]

\* bool phi_sensor_init(const PhiSensorConfig *config)
phi_sensor_init(s, p, config) ==
    IF config = NULL THEN [s EXCEPT !.ret = FALSE]
    ELSE Then([s EXCEPT !.g_config = config[1],
                        !.g_stats = [ total_samples |-> 0, calibrated |-> FALSE ],
                        !.g_calibration =
                            [ voltage_min |-> PerChannel(0),
                              voltage_max |-> PerChannel(PHI_SENSOR_VOLTAGE_MAX) ]],
              LAMBDA s1 :
         IF ~phi_platform_adc_init(p) THEN [s1 EXCEPT !.ret = FALSE]
         ELSE [s1 EXCEPT !.g_initialized = TRUE, !.ret = TRUE])

\* The statements of phi_sensor_start and phi_sensor_stop, one at a time: the
\* sample timer interrupt can be taken between any two of them.
\*   start:          the guard and g_sample_timer.begin(sample_timer_isr, ...)
\*   start_running:  g_running = true
\*   start_counter:  g_sample_counter = 0, g_last_sample_us = ..., return true
\*   stop:           the guard and g_sample_timer.end()
\*   stop_running:   g_running = false, return true
\*   read_clear:     g_data_ready = false, return true (after the memcpy)
\*   cal_loop:       one turn of the sample loop of phi_sensor_calibrate (the
\*                   guards and the memcpy of its phi_sensor_read, delay(1)
\*                   when there is no sample); the stub values elsewhere
\*   cal_store:      the results into *calibration and g_calibration,
\*                   g_stats.calibrated = true, then the stop or return true
\* The samples of a run are those produced since g_running became true
SensorStatement(s, p) ==
    CASE s.pc = "start" ->
            IF ~s.g_initialized \/ s.g_running THEN SensorReturn(s, FALSE)
            ELSE [s EXCEPT !.g_sample_timer =
                               IF p = "TEENSY" THEN 1000000 \div s.g_config.sample_rate_hz
                               ELSE @,
                           !.pc = "start_running"]
      [] s.pc = "start_running" ->
            [s EXCEPT !.g_running = TRUE, !.produced = << >>, !.pc = "start_counter"]
      [] s.pc = "start_counter" ->
            SensorReturn([s EXCEPT !.g_sample_counter = 0], TRUE)
      [] s.pc = "stop" ->
            IF ~s.g_running THEN SensorReturn(s, FALSE)
            ELSE [s EXCEPT !.g_sample_timer = IF p = "TEENSY" THEN 0 ELSE @,
                           !.pc = "stop_running"]
      [] s.pc = "stop_running" ->
            SensorReturn([s EXCEPT !.g_running = FALSE], TRUE)
      [] s.pc = "read_clear" ->
            SensorReturn([s EXCEPT !.g_data_ready = FALSE], TRUE)
      [] s.pc = "cal_loop" ->
            IF p # "TEENSY"
            THEN [s EXCEPT !.v_min = PerChannel(100), !.v_max = PerChannel(3200),
                           !.pc = "cal_store"]
            ELSE IF s.duration_ms = 0 THEN [s EXCEPT !.pc = "cal_store"]
            ELSE IF ~s.g_running \/ ~s.g_data_ready THEN s
            ELSE [s EXCEPT !.data = Ptr(s.g_current_data), !.fresh = FALSE,
                           !.pc = "read_clear"]
      [] s.pc = "cal_store" ->
            Then([s EXCEPT !.calibration =
                               Ptr([ voltage_min |-> s.v_min, voltage_max |-> s.v_max ]),
                           !.g_calibration =
                               [ voltage_min |-> s.v_min, voltage_max |-> s.v_max ],
                           !.g_stats.calibrated = TRUE], LAMBDA s1 :
            IF ~s1.was_running THEN [s1 EXCEPT !.pc = "stop"]
            ELSE SensorReturn(s1, TRUE))

\* bool phi_sensor_start(void), up to its first interruptible point
phi_sensor_start(s, p) ==
    SensorStatement([s EXCEPT !.call = "phi_sensor_start", !.pc = "start"], p)

\* bool phi_sensor_stop(void), up to its first interruptible point
phi_sensor_stop(s, p) ==
    SensorStatement([s EXCEPT !.call = "phi_sensor_stop", !.pc = "stop"], p)

\* bool phi_sensor_set_sample_rate(uint32_t rate_hz), up to its first
\* interruptible point: the rate is stored and, when the sensor runs, the
\* stop and the start follow
phi_sensor_set_sample_rate(s, p, rate_hz) ==
    IF rate_hz < 1 \/ rate_hz > 1000 THEN [s EXCEPT !.ret = FALSE]
    ELSE Then([s EXCEPT !.g_config.sample_rate_hz = rate_hz,
                        !.call = "phi_sensor_set_sample_rate",
                        !.found_running = s.g_running], LAMBDA s1 :
         IF s1.g_running THEN [s1 EXCEPT !.pc = "stop"]
         ELSE [s1 EXCEPT !.ret = TRUE])

\* bool phi_sensor_read(PhiSensorData *data), up to its first interruptible
\* point after the copy: the guards and the memcpy of g_current_data
phi_sensor_read(s, p, data) ==
    IF data = NULL \/ ~s.g_running THEN [s EXCEPT !.ret = FALSE]
    ELSE IF ~s.g_data_ready THEN [s EXCEPT !.ret = FALSE]
    ELSE [s EXCEPT !.data = Ptr(s.g_current_data), !.fresh = FALSE,
                   !.call = "phi_sensor_read", !.pc = "read_clear"]

\* The calibrate call that takes the sensor for running whatever it found: it
\* starts a stopped sensor and never stops it again
calibrate_forgetting_was_running(s, p, duration_ms, calibration) ==
    IF ~s.g_initialized \/ calibration = NULL THEN [s EXCEPT !.ret = FALSE]
    ELSE Then([s EXCEPT !.call = "phi_sensor_calibrate",
                        !.was_running = TRUE,
                        !.found_running = s.g_running,
                        !.duration_ms = duration_ms,
                        !.v_min = PerChannel(PHI_SENSOR_VOLTAGE_MAX),
                        !.v_max = PerChannel(0)], LAMBDA s1 :
         IF ~s.g_running THEN SensorStatement([s1 EXCEPT !.pc = "start"], p)
         ELSE [s1 EXCEPT !.pc = "cal_loop"])

\* bool phi_sensor_calibrate(uint32_t duration_ms, PhiSensorCalibration
\* *calibration), up to its first interruptible point: the guard, was_running,
\* the start of a stopped sensor, v_min and v_max at the ends of the range
phi_sensor_calibrate(s, p, duration_ms, calibration) ==
    IF ~s.g_initialized \/ calibration = NULL THEN [s EXCEPT !.ret = FALSE]
    ELSE Then([s EXCEPT !.call = "phi_sensor_calibrate",
                        !.was_running = s.g_running,
                        !.found_running = s.g_running,
                        !.duration_ms = duration_ms,
                        !.v_min = PerChannel(PHI_SENSOR_VOLTAGE_MAX),
                        !.v_max = PerChannel(0)], LAMBDA s1 :
         IF ~s1.was_running THEN SensorStatement([s1 EXCEPT !.pc = "start"], p)
         ELSE [s1 EXCEPT !.pc = "cal_loop"])

\* bool phi_sensor_load_calibration(const PhiSensorCalibration *calibration):
\* the structure is copied as it is
phi_sensor_load_calibration(s, calibration) ==
    IF calibration = NULL THEN [s EXCEPT !.ret = FALSE]
    ELSE [s EXCEPT !.g_calibration = calibration[1],
                   !.g_stats.calibrated = TRUE,
                   !.ret = TRUE]

\* bool phi_sensor_set_filtering(bool enable)
phi_sensor_set_filtering(s, enable) ==
    [s EXCEPT !.g_config.enable_filtering = enable,
              !.g_filter_state = IF ~enable THEN PerChannel(0) ELSE @,
              !.ret = TRUE]

\* float adc_to_voltage(uint16_t adc_value), in millivolts
adc_to_voltage(adc_value) == TDiv(adc_value * PHI_SENSOR_VOLTAGE_MAX, PHI_SENSOR_ADC_MAX)

\* float apply_calibration(float voltage, uint8_t channel), in thousandths.
\* v_max <= v_min and the two clamps are float comparisons: false on a NaN
apply_calibration(s, voltage, channel) ==
    IF ~s.g_config.enable_calibration \/ ~s.g_stats.calibrated
    THEN FDiv(voltage, PHI_SENSOR_VOLTAGE_MAX)
    ELSE LET v_min == s.g_calibration.voltage_min[channel]
             v_max == s.g_calibration.voltage_max[channel]
             normalized == FDiv(FSub(voltage, v_min), FSub(v_max, v_min))
         IN  IF FGe(v_min, v_max) THEN 500
             ELSE IF FLt(normalized, 0) THEN 0
             ELSE IF FGt(normalized, 1000) THEN 1000
             ELSE normalized

\* float apply_filter(float new_value, uint8_t channel): the filter state of
\* the channel after the call, which is the value returned when filtering
FilterState(s, new_value, channel) ==
    IF ~s.g_config.enable_filtering THEN s.g_filter_state[channel]
    ELSE IF IsNaN(new_value) \/ IsNaN(s.g_filter_state[channel]) THEN NaN
    ELSE TDiv(FILTER_ALPHA * new_value
              + (1000 - FILTER_ALPHA) * s.g_filter_state[channel], 1000)

apply_filter(s, new_value, channel) ==
    IF ~s.g_config.enable_filtering THEN new_value
    ELSE FilterState(s, new_value, channel)

\* void sample_timer_isr(): runs to its end once taken (the caller's code does
\* not preempt an interrupt handler).  raw_adc[ch] is what platform_adc_read
\* returns for the channel
sample_timer_isr(s, raw_adc) ==
    IF ~s.g_running THEN s
    ELSE [s EXCEPT !.g_current_data =
                       [ sample_number |-> s.g_sample_counter,
                         raw_adc |-> raw_adc,
                         voltage |-> [ ch \in Channels |-> adc_to_voltage(raw_adc[ch]) ],
                         normalized |->
                             [ ch \in Channels |->
                                 apply_filter(s, apply_calibration(
                                     s, adc_to_voltage(raw_adc[ch]), ch), ch) ] ],
                   !.g_filter_state =
                       [ ch \in Channels |->
                           FilterState(s, apply_calibration(
                               s, adc_to_voltage(raw_adc[ch]), ch), ch) ],
                   !.g_sample_counter = @ + 1,
                   !.g_data_ready = TRUE,
                   !.g_stats.total_samples = @ + 1,
                   !.produced = Append(@, s.g_sample_counter),
                   !.fresh = TRUE]

\* ------------------------------------------------------ what callers pass

\* A configuration: the self-test's with the analog filter, the voltage clamp,
\* the thermal monitor and the modulator switched as given
Config(filter, clamp, thermal, modulation) ==
    [DefaultConfig EXCEPT !.enable_analog_filter = filter,
                          !.enable_voltage_clamp = clamp,
                          !.enable_thermal_monitor = thermal,
                          !.enable_modulation = modulation]

\* Configurations without the analog filter, with the clamp and the thermal
\* monitor: the analysis switched on and off
DspGateConfigs ==
    { Config(FALSE, TRUE, TRUE, TRUE),
      [Config(FALSE, TRUE, TRUE, TRUE) EXCEPT !.enable_dsp = FALSE] }

\* The configurations init is called with
Configs ==
    { DefaultConfig,
      Config(FALSE, TRUE, TRUE, TRUE),
      Config(FALSE, TRUE, TRUE, FALSE),
      Config(TRUE, FALSE, FALSE, TRUE) }

\* Input buffers of BufferSize frames, two channels interleaved.  Loud has one
\* full-scale sample in the second channel: it overloads the input and leaves
\* the first channel, the one the analyzer reads, silent.
Silence == [i \in 1..(BufferSize * HYBRID_ADC_CHANNELS) |-> 0]
Loud == [i \in 1..(BufferSize * HYBRID_ADC_CHANNELS) |-> IF i = 2 THEN 1000 ELSE 0]
InputBuffers == { Silence, Loud }

\* An input buffer with one sample of half scale in the first channel: the
\* analyzer sees an impulse, the input is not overloaded
Tone == [i \in 1..(BufferSize * HYBRID_ADC_CHANNELS) |-> IF i = 1 THEN 500 ELSE 0]

\* The self-test's configuration without the analog filter and without the
\* flux ring (enable_ici off)
AnalyzerConfig ==
    [DefaultConfig EXCEPT !.enable_analog_filter = FALSE, !.enable_ici = FALSE]

\* The caller's output buffer before a call: stale values
StaleOutput == [i \in 1..(BufferSize * HYBRID_DAC_CHANNELS) |-> 123]

\* analogRead of the thermal pin: 25.0, 75.0 and 90.0 degrees
TempReadings == { 250, 750, 900 }

\* micros() at the start of a cycle, and the time a cycle took
ClockReadings == { 1000 }
CycleLatencies == { 30 }

\* Arguments of set_preamp_gain: around both limits, and NaN
GainInputs == { 999, 1000, 1100, 40000, 40001, NaN }

\* Argument of set_control_voltage: out of range on both sides, depth above 1
HotCv == [cv1 |-> 7000, cv2 |-> -1000, phi_phase |-> 3142, phi_depth |-> 2000]
CvInputs == { HotCv }

\* A request that leaves the voltages at zero and asks for a depth the
\* modulator turns into more than the maximum
DeepCv == [cv1 |-> 0, cv2 |-> 0, phi_phase |-> 0, phi_depth |-> 2000]

\* The caller's CalibrationData before calibrate fills it: stale values
StaleCalibration ==
    [ZeroCalibration EXCEPT !.adc_gain = [ch \in DOMAIN @ |-> 777],
                            !.dac_gain = [ch \in DOMAIN @ |-> 555],
                            !.total_latency_us = 9999]

\* A profile measured elsewhere, as load_calibration receives it
FactoryCalibration ==
    [ZeroCalibration EXCEPT !.adc_gain = [ch \in DOMAIN @ |-> 1000],
                            !.adc_offset = [ch \in DOMAIN @ |-> -5],
                            !.dac_gain = [ch \in DOMAIN @ |-> 1000],
                            !.adc_latency_us = 500, !.dsp_latency_us = 500,
                            !.dac_latency_us = 500, !.total_latency_us = 1500,
                            !.calibration_timestamp = 1600000000,
                            !.is_calibrated = TRUE]

CalibrateInputs == { StaleCalibration }
LoadInputs == { StaleCalibration, FactoryCalibration }

\* end_us - start_us of the loopback (Teensy build), and time(NULL)
LoopbackLatencies == { 2000, 2001 }
CalibrationTimes == { 1700000000 }

\* File names: cal.bin can be created, short.cal exists and is too short,
\* /nodir/cal.bin is in a directory that does not exist
FileNames == { "cal.bin", "short.cal", "/nodir/cal.bin" }

\* The names calibrations are saved under
SaveNames == { "cal.bin", "/nodir/cal.bin" }

\* What fwrite returns for the one record
WriteResults == { 0, 1 }

\* Arguments of set_mode
ModeInputs == { HYBRID_MODE_ANALOG_ONLY, HYBRID_MODE_CALIBRATION }

\* The configuration of the bridge's callers
BridgeConfig ==
    [ mode |-> I2S_MODE_MASTER, sample_rate |-> I2S_SAMPLE_RATE,
      bit_depth |-> I2S_BIT_DEPTH, channels |-> I2S_CHANNELS,
      buffer_size |-> I2S_BUFFER_SIZE, enable_gpio_sync |-> FALSE,
      enable_diagnostics |-> FALSE, gpio_sync_pin |-> 0 ]

\* The audio of the bridge's self-test: a square wave at the 24-bit limits
BridgeAudio ==
    [j \in 1..(I2S_BUFFER_SIZE * I2S_CHANNELS) |->
        IF (j - 1) % 2 = 1 THEN 8388607 ELSE -8388608]

\* Metrics records with sequence number s.  TestMetrics has the values of the
\* self-test: 3.14159f, 0.5f, 0.95f, 1.0f and 100.0f
TestMetrics(s) ==
    [ phi_phase |-> << 208, 15, 73, 64 >>, phi_depth |-> << 0, 0, 0, 63 >>,
      coherence |-> << 51, 51, 115, 63 >>, criticality |-> << 0, 0, 128, 63 >>,
      ici |-> << 0, 0, 200, 66 >>, timestamp_us |-> 0, sequence |-> s ]

\* -1.5f, a NaN with a payload, -0.0f, FLT_MAX and the smallest denormal
EdgeMetrics(s) ==
    [ phi_phase |-> << 0, 0, 192, 191 >>, phi_depth |-> << 1, 0, 192, 127 >>,
      coherence |-> << 0, 0, 0, 128 >>, criticality |-> << 255, 255, 127, 127 >>,
      ici |-> << 1, 0, 0, 0 >>, timestamp_us |-> 2000, sequence |-> s ]

\* The caller's structure before a receive: stale floats (2.0f, 3.0f), and the
\* sequence number s left in it
StaleMetrics(s) ==
    [ phi_phase |-> << 0, 0, 0, 64 >>, phi_depth |-> << 0, 0, 0, 64 >>,
      coherence |-> << 0, 0, 0, 64 >>, criticality |-> << 0, 0, 0, 64 >>,
      ici |-> << 0, 0, 64, 64 >>, timestamp_us |-> 0, sequence |-> s ]

SequenceNumbers == { 0, 1, 2, 3 }
MetricsInputs ==
    { TestMetrics(s) : s \in SequenceNumbers } \cup { EdgeMetrics(s) : s \in {0, 1} }
ReceiveStructs == { StaleMetrics(s) : s \in {0, 1} }

\* The sensor configurations callers pass: the default rate (phi_sensor.h),
\* the samples taken as they are
SensorConfigs ==
    { Ptr([ sample_rate_hz |-> PHI_SENSOR_SAMPLE_RATE, enable_calibration |-> FALSE,
            enable_filtering |-> FALSE ]) }

\* The configurations that use the calibration, with the filter or without
CalibratedConfigs ==
    { Ptr([ sample_rate_hz |-> PHI_SENSOR_SAMPLE_RATE, enable_calibration |-> TRUE,
            enable_filtering |-> f ]) : f \in BOOLEAN }

\* What the converter returns in one sample, the same on every channel: the
\* ends of the range
AdcReadings == { PerChannel(adc) : adc \in {0, PHI_SENSOR_ADC_MAX} }

\* A sample at the middle of the range
MidReadings == { PerChannel(PHI_SENSOR_ADC_MAX \div 2) }

\* The calibrations callers load, the same on every channel: a range, a range
\* whose maximum is below its minimum, and one whose minimum is a NaN
Calibrations ==
    { NULL,
      Ptr([ voltage_min |-> PerChannel(100), voltage_max |-> PerChannel(3200) ]),
      Ptr([ voltage_min |-> PerChannel(2000), voltage_max |-> PerChannel(1000) ]),
      Ptr([ voltage_min |-> PerChannel(NaN), voltage_max |-> PerChannel(3200) ]) }

\* The rates callers ask for: a valid one and one above the range
SampleRates == { 60, 1001 }

\* The self-test's configuration without the analog filter and the modulator:
\* the analyzer, the interval and the coherence run on the raw input
IciConfig ==
    [DefaultConfig EXCEPT !.enable_analog_filter = FALSE, !.enable_modulation = FALSE]

\* ------------------------------------------------------------------ actions

CallInit(configs) ==
    \E config \in configs :
        /\ Commit(hybrid_node_init(Machine, Ptr(config)))
        /\ op' = "init"

CallStart ==
    /\ Commit(hybrid_node_start(Machine))
    /\ op' = "start"

CallStop ==
    /\ Commit(hybrid_node_stop(Machine))
    /\ op' = "stop"

\* A cycle; the counters the cycle advances stay within the model's bounds
CallProcess(inputs, temps) ==
    \E input \in {NULL} \cup {Ptr(b) : b \in inputs},
       out \in {NULL, Ptr(StaleOutput)},
       temp_raw \in temps, start_us \in ClockReadings,
       latency_us \in CycleLatencies :
        \E m \in { hybrid_node_process(Machine, input, out, BufferSize,
                                        temp_raw, start_us, latency_us) } :
            /\ m.g_status.stats.frames_processed <= MaxFrames
            /\ m.g_status.safety.overload_count <= MaxOverloads
            /\ m.g_status.safety.clamp_count <= MaxClamps
            /\ m.g_ici_index <= MaxRing
            /\ Commit(m)
            /\ op' = "process"

CallSetPreampGain(gains) ==
    \E gain \in gains :
        /\ Commit(hybrid_node_set_preamp_gain(Machine, gain))
        /\ op' = "set_preamp_gain"

CallSetControlVoltage(cvs) ==
    \E cv \in cvs :
        /\ Commit(hybrid_node_set_control_voltage(Machine, Ptr(cv)))
        /\ op' = "set_control_voltage"

CallEmergencyShutdown ==
    /\ Commit(hybrid_node_emergency_shutdown(Machine))
    /\ op' = "emergency_shutdown"

CallCalibrate(cals, latencies) ==
    \E calibration \in {NULL} \cup {Ptr(c) : c \in cals},
       measured \in latencies, now \in CalibrationTimes :
        \E m \in { hybrid_node_calibrate(Machine, calibration, measured, now) } :
            /\ Commit(m)
            /\ op' = "calibrate"

CallLoadCalibration(cals) ==
    \E calibration \in {NULL} \cup {Ptr(c) : c \in cals} :
        /\ Commit(hybrid_node_load_calibration(Machine, calibration))
        /\ op' = "load_calibration"

\* The history of saves after a save left the machine as m: a save that returned
\* true records the live profile under the name, one that left the file without
\* a record forgets the name
RecordSave(m, filename) ==
    IF m.ret
    THEN [m EXCEPT !.saved = (filename[1] :> m.g_status.calibration) @@ @]
    ELSE IF m.files # files
    THEN [m EXCEPT !.saved = [f \in (DOMAIN @) \ {filename[1]} |-> @[f]]]
    ELSE m

CallSaveCalibration(names) ==
    \E filename \in {NULL} \cup {Ptr(f) : f \in names}, written \in WriteResults :
        \E m \in { hybrid_node_save_calibration(Machine, filename, written) } :
            /\ Commit(RecordSave(m, filename))
            /\ op' = "save_calibration"

CallLoadCalibrationFile(names) ==
    \E filename \in {NULL} \cup {Ptr(f) : f \in names} :
        /\ Commit(hybrid_node_load_calibration_file(Machine, filename))
        /\ op' = "load_calibration_file"

CallResetStatistics ==
    /\ Commit(hybrid_node_reset_statistics(Machine))
    /\ op' = "reset_statistics"

CallSetMode(modes) ==
    \E mode \in modes :
        /\ Commit(hybrid_node_set_mode(Machine, mode))
        /\ op' = "set_mode"

CallBridgeInit ==
    \E config \in {NULL, Ptr(BridgeConfig)} :
        /\ CommitBridge(i2s_bridge_init(Bridge, config))
        /\ op' = "i2s_bridge_init"

CallBridgeStart ==
    /\ CommitBridge(i2s_bridge_start(Bridge))
    /\ op' = "i2s_bridge_start"

CallBridgeStop ==
    /\ CommitBridge(i2s_bridge_stop(Bridge))
    /\ op' = "i2s_bridge_stop"

\* A transmit; the frame counter stays within the model's bound
CallTransmit ==
    \E audio_data \in {NULL, Ptr(BridgeAudio)},
       metrics \in {NULL} \cup {Ptr(x) : x \in MetricsInputs} :
        \E b \in { i2s_bridge_transmit(Bridge, audio_data, metrics) } :
            /\ b.g_stats.frames_transmitted <= MaxFrames
            /\ CommitBridge(b)
            /\ op' = "i2s_bridge_transmit"

\* The link carries the frame last transmitted to the receive buffer
Deliver ==
    /\ i2s_g_running
    /\ sent # NULL
    /\ CommitBridge(deliver(Bridge))
    /\ op' = "deliver"

\* A receive; the frame counter stays within the model's bound
CallReceive ==
    \E audio_data \in {NULL, Ptr(Zeros(I2S_BUFFER_SIZE * I2S_CHANNELS))},
       metrics \in {NULL} \cup {Ptr(x) : x \in ReceiveStructs} :
        \E b \in { i2s_bridge_receive(Bridge, audio_data, metrics) } :
            /\ b.g_stats.frames_received <= MaxFrames
            /\ CommitBridge(b)
            /\ op' = "i2s_bridge_receive"

\* The globals in the middle of a call: what the call has written so far stays
Resume ==
    [Machine EXCEPT !.output = output, !.port_writes = port_writes, !.ret = ret,
                    !.sc001 = sc001]

\* The cycle context enters hybrid_node_process and passes its guard; the
\* counters the cycle will advance stay within the model's bounds
BeginCycle(inputs, temps) ==
    /\ cycle.pc = 0
    /\ g_running
    /\ \E input \in {Ptr(b) : b \in inputs}, temp_raw \in temps,
          start_us \in ClockReadings, latency_us \in CycleLatencies :
            /\ \E m \in { hybrid_node_process(Machine, input, Ptr(StaleOutput),
                                              BufferSize, temp_raw, start_us,
                                              latency_us) } :
                    /\ m.g_status.stats.frames_processed <= MaxFrames
                    /\ m.g_status.safety.overload_count <= MaxOverloads
                    /\ m.g_status.safety.clamp_count <= MaxClamps
                    /\ m.g_ici_index <= MaxRing
            /\ cycle' = [ pc |-> 1, input |-> input, out |-> Ptr(StaleOutput),
                          temp_raw |-> temp_raw, start_us |-> start_us,
                          latency_us |-> latency_us, before |-> g_status ]
    /\ Store(Machine)
    /\ op' = "process_entered"
    /\ UNCHANGED << platform, bridge, snapshot, peripherals >>

\* The cycle context runs the next stage of the cycle under way
StepCycle ==
    /\ cycle.pc > 0
    /\ \E m \in { CycleStage(cycle.pc, Resume, cycle.input, cycle.out, BufferSize,
                              cycle.temp_raw, cycle.start_us, cycle.latency_us) } :
            Store(m)
    /\ cycle' = IF cycle.pc = LastStage THEN Idle ELSE [cycle EXCEPT !.pc = @ + 1]
    /\ op' = IF cycle.pc = LastStage THEN "process" ELSE "process_stage"
    /\ UNCHANGED << platform, bridge, snapshot, peripherals >>

\* A caller in another context copies the live structure
CallGetStatus ==
    /\ snapshot' = Ptr(hybrid_node_get_status(Machine))
    /\ op' = "get_status"
    /\ ret' = TRUE
    /\ UNCHANGED << node, output, port_writes, files, sc001, saved, bridge, cycle,
                    peripherals >>

CallGetDspMetrics ==
    /\ snapshot' = Ptr(hybrid_node_get_dsp_metrics(Machine))
    /\ op' = "get_dsp_metrics"
    /\ ret' = TRUE
    /\ UNCHANGED << node, output, port_writes, files, sc001, saved, bridge, cycle,
                    peripherals >>

CallGetSafety ==
    /\ snapshot' = Ptr(hybrid_node_get_safety(Machine))
    /\ op' = "get_safety"
    /\ ret' = TRUE
    /\ UNCHANGED << node, output, port_writes, files, sc001, saved, bridge, cycle,
                    peripherals >>

\* A step of the phi sensor that leaves it as s: nothing else changes
CommitSensor(s, name) ==
    /\ sensor' = s
    /\ op' = name
    /\ ret' = s.ret
    /\ UNCHANGED << node, output, port_writes, files, sc001, saved, bridge, cycle,
                    snapshot, sync >>

CallSensorInit(configs) ==
    /\ sensor.pc = "idle"
    /\ \E config \in configs :
           CommitSensor(phi_sensor_init(sensor, platform, config), "phi_sensor_init")

\* The initialisation of a sensor that is not initialised yet (the filter
\* state is finite while the samples of one initialisation are counted)
CallSensorInitOnce(configs) ==
    /\ ~sensor.g_initialized
    /\ CallSensorInit(configs)

CallSensorStart ==
    /\ sensor.pc = "idle"
    /\ CommitSensor(phi_sensor_start(sensor, platform), "phi_sensor_start")

CallSensorStop ==
    /\ sensor.pc = "idle"
    /\ CommitSensor(phi_sensor_stop(sensor, platform), "phi_sensor_stop")

CallSensorSetSampleRate(rates) ==
    /\ sensor.pc = "idle"
    /\ \E rate_hz \in rates :
           CommitSensor(phi_sensor_set_sample_rate(sensor, platform, rate_hz),
                        "phi_sensor_set_sample_rate")

CallSensorRead ==
    /\ sensor.pc = "idle"
    /\ \E data \in {NULL, Ptr(ZeroSensorData)} :
           CommitSensor(phi_sensor_read(sensor, platform, data), "phi_sensor_read")

CallSensorCalibrate ==
    /\ sensor.pc = "idle"
    /\ \E duration_ms \in {0, 1000}, calibration \in {NULL, Ptr(ZeroSensor.g_calibration)} :
           CommitSensor(phi_sensor_calibrate(sensor, platform, duration_ms, calibration),
                        "phi_sensor_calibrate")

\* millis() - start_ms reaches duration_ms: the sample loop of the calibrate
\* call under way ends
CalibrationWindowCloses ==
    /\ sensor.pc = "cal_loop"
    /\ platform = "TEENSY"
    /\ sensor.duration_ms > 0
    /\ CommitSensor([sensor EXCEPT !.pc = "cal_store"], "phi_sensor_calibrate")

CallSensorLoadCalibration(calibrations) ==
    /\ sensor.pc = "idle"
    /\ \E calibration \in calibrations :
           CommitSensor(phi_sensor_load_calibration(sensor, calibration),
                        "phi_sensor_load_calibration")

CallSensorSetFiltering ==
    /\ sensor.pc = "idle"
    /\ \E enable \in BOOLEAN :
           CommitSensor(phi_sensor_set_filtering(sensor, enable),
                        "phi_sensor_set_filtering")

\* The caller's context runs the next statement of the sensor call under way
SensorContinue ==
    /\ sensor.pc # "idle"
    /\ CommitSensor(SensorStatement(sensor, platform), sensor.call)

\* The sample timer fires: the handler exists on the Teensy build and is called
\* while g_sample_timer is begun
SampleTimerIsr(readings) ==
    /\ platform = "TEENSY"
    /\ sensor.g_sample_timer > 0
    /\ sensor.g_sample_counter < MaxSamples
    /\ sensor.g_stats.total_samples < 2 * MaxSamples
    /\ \E raw_adc \in readings : sensor' = sample_timer_isr(sensor, raw_adc)
    /\ op' = "sample_timer_isr"
    /\ UNCHANGED << node, ret, output, port_writes, files, sc001, saved, bridge,
                    cycle, snapshot, sync >>

\* The sample timer fires during the first samples of an initialisation
SampleTimerIsrEarly(readings) ==
    /\ sensor.g_stats.total_samples < MaxSamples
    /\ SampleTimerIsr(readings)

CallSetGpioSync ==
    /\ sync.pc = "idle"
    /\ \E enable \in BOOLEAN :
           CommitBridge(i2s_bridge_set_gpio_sync(Bridge, enable))
    /\ op' = "i2s_bridge_set_gpio_sync"
    /\ UNCHANGED sync

\* i2s_bridge_calibrate_drift is entered: it returns 0 at once, or reads the
\* count and waits.  The windows of the model start at the counts of SyncCounts
CallCalibrateDrift ==
    /\ sync.pc = "idle"
    /\ IF drift_not_measured(Bridge)
       THEN /\ ret' = 0
            /\ op' = "i2s_bridge_calibrate_drift"
            /\ UNCHANGED sync
       ELSE /\ sync.g_sync_counter \in SyncCounts
            /\ sync' = drift_window_open(sync)
            /\ op' = "i2s_bridge_calibrate_drift_entered"
            /\ UNCHANGED ret
    /\ UNCHANGED << node, output, port_writes, files, sc001, saved, bridge, cycle,
                    snapshot, sensor >>

\* The sync timer fires while the calibration waits
SyncPulseIsr ==
    /\ platform = "TEENSY"
    /\ sync.pc = "delay"
    /\ sync.pulses < MaxPulses
    /\ sync' = sync_pulse_isr(sync)
    /\ op' = "sync_pulse_isr"
    /\ UNCHANGED << node, ret, output, port_writes, files, sc001, saved, bridge,
                    cycle, snapshot, sensor >>

\* The delay is over: the count is read again, the drift is stored and returned
ReturnCalibrateDrift ==
    /\ sync.pc = "delay"
    /\ sync' = [sync EXCEPT !.pc = "idle"]
    /\ g_stats' = [g_stats EXCEPT !.clock_drift_ppm = drift_ppm(sync)]
    /\ ret' = drift_ppm(sync)
    /\ op' = "i2s_bridge_calibrate_drift"
    /\ UNCHANGED << node, output, port_writes, files, sc001, saved, i2s_g_config,
                    i2s_g_initialized, i2s_g_running, g_tx_buffer, g_rx_buffer,
                    sent, delivered, cycle, snapshot, sensor >>

\* The node's lifecycle, cycle, control-voltage and shutdown calls
Next ==
    \/ CallInit(Configs)
    \/ CallStart
    \/ CallStop
    \/ CallProcess(InputBuffers, TempReadings)
    \/ CallSetControlVoltage(CvInputs)
    \/ CallEmergencyShutdown

Spec == Init /\ [][Next]_vars

\* The preamp gain: set by the caller, reduced by overloaded cycles
NextGain ==
    \/ CallInit({DefaultConfig, Config(FALSE, TRUE, FALSE, TRUE)})
    \/ CallStart
    \/ CallStop
    \/ CallProcess(InputBuffers, {250})
    \/ CallSetPreampGain(GainInputs)

SpecGain == Init /\ [][NextGain]_vars

\* The configuration: the calls that write g_config, on a node that is started,
\* stopped and run
NextConfig ==
    \/ CallInit({DefaultConfig, Config(FALSE, TRUE, FALSE, TRUE)})
    \/ CallStart
    \/ CallStop
    \/ CallProcess(InputBuffers, {250})
    \/ CallSetPreampGain({1100, 40001})
    \/ CallSetMode(ModeInputs)

SpecConfig == Init /\ [][NextConfig]_vars

\* The safety counters: the calls that count overloads and clamps, and the calls
\* that reset or rewrite parts of the status
NextCounters ==
    \/ CallInit({Config(FALSE, TRUE, FALSE, TRUE)})
    \/ CallStart
    \/ CallStop
    \/ CallProcess(InputBuffers, {250})
    \/ CallSetControlVoltage(CvInputs)
    \/ CallResetStatistics
    \/ CallCalibrate(CalibrateInputs, {2000})
    \/ CallEmergencyShutdown

SpecCounters == Init /\ [][NextCounters]_vars

\* The cycle context running hybrid_node_process stage by stage while a caller
\* in another context takes snapshots; the node is set up between cycles
NextCycle ==
    \/ cycle.pc = 0 /\ CallInit({Config(FALSE, TRUE, FALSE, TRUE)})
    \/ cycle.pc = 0 /\ CallStart
    \/ BeginCycle(InputBuffers, {250})
    \/ StepCycle
    \/ CallGetStatus
    \/ CallGetDspMetrics
    \/ CallGetSafety

SpecCycle == Init /\ [][NextCycle]_vars

\* The analyzer: silent and tonal cycles on a node that is initialised,
\* started and stopped again and again
NextDsp ==
    \/ CallInit({AnalyzerConfig})
    \/ CallStart
    \/ CallStop
    \/ CallProcess({Silence, Tone}, {250})

SpecDsp == Init /\ [][NextDsp]_vars

\* The I2S bridge: its lifecycle, transmit, the link and receive
NextBridge ==
    \/ CallBridgeInit
    \/ CallBridgeStart
    \/ CallBridgeStop
    \/ CallTransmit
    \/ Deliver
    \/ CallReceive

SpecBridge == Init /\ [][NextBridge]_vars

\* The calibration profile: measured, loaded, saved to a file and loaded from
\* one, on a node that is started, stopped and run
NextCal ==
    \/ CallInit({DefaultConfig})
    \/ CallStart
    \/ CallStop
    \/ CallProcess({Loud}, {250})
    \/ CallCalibrate(CalibrateInputs, LoopbackLatencies)
    \/ CallLoadCalibration(LoadInputs)
    \/ CallSaveCalibration(SaveNames)
    \/ CallLoadCalibrationFile(FileNames)

SpecCal == Init /\ [][NextCal]_vars

\* The phi sensor: its calls, statement by statement, and the sample timer
NextSensor ==
    \/ CallSensorInit(SensorConfigs)
    \/ CallSensorStart
    \/ CallSensorStop
    \/ CallSensorSetSampleRate(SampleRates)
    \/ SensorContinue
    \/ SampleTimerIsr(MidReadings)

SpecSensor == Init /\ [][NextSensor]_vars

\* The phi sensor with a reader: samples are stored by the timer and read
NextSensorRead ==
    \/ CallSensorInit(SensorConfigs)
    \/ CallSensorStart
    \/ CallSensorStop
    \/ CallSensorRead
    \/ SensorContinue
    \/ SampleTimerIsr(MidReadings)

SpecSensorRead == Init /\ [][NextSensorRead]_vars

\* The phi sensor with its calibration and its filter: calibrations are
\* loaded and measured, the filter is switched, samples of any reading are taken
NextNormalize ==
    \/ CallSensorInitOnce(CalibratedConfigs)
    \/ CallSensorStart
    \/ CallSensorStop
    \/ CallSensorLoadCalibration(Calibrations)
    \/ CallSensorCalibrate
    \/ CalibrationWindowCloses
    \/ CallSensorSetFiltering
    \/ SensorContinue
    \/ SampleTimerIsrEarly(AdcReadings)

SpecNormalize == Init /\ [][NextNormalize]_vars

\* The phi sensor with the calls that stop and start it on their way
NextRestart ==
    \/ CallSensorInit(SensorConfigs)
    \/ CallSensorStart
    \/ CallSensorStop
    \/ CallSensorSetSampleRate(SampleRates)
    \/ CallSensorCalibrate
    \/ CalibrationWindowCloses
    \/ SensorContinue
    \/ SampleTimerIsr(MidReadings)

SpecRestart == Init /\ [][NextRestart]_vars

\* The drift calibration of the bridge against the sync pulse
NextDrift ==
    \/ CallSetGpioSync
    \/ CallCalibrateDrift
    \/ SyncPulseIsr
    \/ ReturnCalibrateDrift

SpecDrift == InitDrift /\ [][NextDrift]_vars

\* The safety check inside the cycle: control voltages set between cycles,
\* cycles at a normal and at a critical temperature, stage by stage
NextSafetyCycle ==
    \/ cycle.pc = 0 /\ CallInit({Config(FALSE, TRUE, TRUE, FALSE),
                                 Config(FALSE, FALSE, TRUE, FALSE)})
    \/ cycle.pc = 0 /\ CallStart
    \/ cycle.pc = 0 /\ CallSetControlVoltage(CvInputs)
    \/ BeginCycle({Silence}, {250, 900})
    \/ StepCycle

SpecSafetyCycle == Init /\ [][NextSafetyCycle]_vars

\* The analysis and the safety status: nodes with the analysis on and off,
\* cycles at a normal and at a warning temperature, voltages set at the clamp
NextDspGate ==
    \/ CallInit(DspGateConfigs)
    \/ CallStart
    \/ CallStop
    \/ CallProcess({Silence, Tone}, {250, 750})
    \/ CallSetControlVoltage(CvInputs)
    \/ CallEmergencyShutdown

SpecDspGate == Init /\ [][NextDspGate]_vars

\* The clamp count: nodes with the modulator and the thermal monitor, with the
\* clamp and without, cycles at a normal and at a critical temperature
NextClamp ==
    \/ CallInit({Config(FALSE, TRUE, TRUE, TRUE), Config(FALSE, FALSE, TRUE, TRUE)})
    \/ CallStart
    \/ CallStop
    \/ CallProcess({Silence}, {250, 900})
    \/ CallSetControlVoltage({DeepCv})

SpecClamp == Init /\ [][NextClamp]_vars

\* The inter-event interval: cycles on a node whose flux ring earlier cycles
\* have filled
NextIci ==
    \/ CallInit({IciConfig})
    \/ CallStart
    \/ CallStop
    \/ CallProcess({Silence, Tone}, {250})

SpecIci == InitIci /\ [][NextIci]_vars

\* ------------------------------------------------------------- properties

AllZero(buf) == \A i \in 1..Len(buf) : buf[i] = 0

\* The last buffer the last call handed to the port is all zero
LastWriteIsZero ==
    port_writes # << >> /\ AllZero(port_writes[Len(port_writes)])

\* The values in the control-voltage channels (2 and 3) of an output buffer
CvSlots(out) ==
    { out[j] : j \in { k \in 1..Len(out) : (k - 1) % HYBRID_DAC_CHANNELS >= 2 } }

InSafetyBounds(v) == FGe(v, SAFETY_VOLTAGE_MIN) /\ FGe(SAFETY_VOLTAGE_MAX, v)

\* The node's state in a machine value, in the order of node
NodeOf(m) ==
    << m.platform, m.g_config, m.g_status, m.g_initialized, m.g_running,
       m.g_adc_buffer, m.g_dac_buffer, m.g_prev_spectral_centroid,
       m.g_ici_buffer, m.g_ici_index, m.hpf_state, m.lpf_state >>

\* The last call was a process cycle whose safety check read a temperature
\* above the critical threshold
CriticalCycle ==
    /\ op = "process" /\ ret
    /\ platform = "TEENSY" /\ g_config.enable_thermal_monitor
    /\ FGt(g_status.safety.temperature, SAFETY_TEMP_CRITICAL)

\* C1: whatever the state hybrid_node_emergency_shutdown is called in, after it
\* is_running is false, cv1 and cv2 are 0, the last buffer written to the port
\* is all zero and the safety status is Fault.
C1_EmergencyShutdownIsSafe ==
    op = "emergency_shutdown" =>
        /\ ~hybrid_node_get_status(Machine).is_running
        /\ g_status.control.cv1 = 0
        /\ g_status.control.cv2 = 0
        /\ LastWriteIsZero
        /\ g_status.safety.status = HYBRID_SAFETY_FAULT

\* An emergency shutdown of a running node (stop wrote to the port as well)
\* that had counted a voltage clamp
C1_ShutdownWhileRunning ==
    /\ op = "emergency_shutdown"
    /\ Len(port_writes) = 2
    /\ g_status.safety.clamp_count > 0

C3_CriticalCycleEndsInFault ==
    CriticalCycle =>
        LET status == hybrid_node_get_status(Machine)
        IN  /\ ~status.is_running
            /\ status.control.cv1 = 0
            /\ status.control.cv2 = 0
            /\ status.safety.status = HYBRID_SAFETY_FAULT
            /\ \A v \in CvSlots(output[1]) : v = 0

\* C4: from Fault or ThermalCritical, no process, set_control_voltage, stop or
\* start call takes the safety status to Ok, VoltageClamp or ThermalWarning.
C4_FaultIsTerminal ==
    [][(/\ g_status.safety.status \in
              { HYBRID_SAFETY_FAULT, HYBRID_SAFETY_TEMP_CRITICAL }
        /\ op' \in { "process", "set_control_voltage", "stop", "start" })
       => g_status'.safety.status \notin
              { HYBRID_SAFETY_OK, HYBRID_SAFETY_VOLTAGE_CLAMP,
                HYBRID_SAFETY_TEMP_WARNING }]_vars

\* C5: a cycle that starts in VoltageClamp, ThermalWarning or Overload and sees
\* no overload, a temperature not above the warning threshold and no control
\* voltage at the maximum ends in Ok.
C5_StatusRevertsToOk ==
    [][(/\ op' = "process" /\ ret'
        /\ g_status.safety.status \in
              { HYBRID_SAFETY_VOLTAGE_CLAMP, HYBRID_SAFETY_TEMP_WARNING,
                HYBRID_SAFETY_ADC_OVERLOAD }
        /\ ~g_status'.analog.is_overloaded
        /\ ~FGt(g_status'.safety.temperature, SAFETY_TEMP_WARNING)
        /\ FLt(g_status.control.cv1, SAFETY_VOLTAGE_MAX)
        /\ FLt(g_status.control.cv2, SAFETY_VOLTAGE_MAX)
        /\ FLt(g_status'.control.cv1, SAFETY_VOLTAGE_MAX)
        /\ FLt(g_status'.control.cv2, SAFETY_VOLTAGE_MAX))
       => g_status'.safety.status = HYBRID_SAFETY_OK]_vars

\* C6: hybrid_node_start returns false and changes nothing when the node is
\* not initialised or already running; otherwise it returns true and the node
\* is running.
C6_StartGuards ==
    [][op' = "start" =>
          IF ~g_initialized \/ g_running
          THEN ~ret' /\ UNCHANGED node /\ port_writes' = << >>
          ELSE ret' /\ g_running' /\ g_status'.is_running]_vars

\* A start refused because the node was running, after a cycle was counted
C6_StartRefusedWhileRunning ==
    /\ op = "start" /\ ~ret
    /\ g_running
    /\ g_status.stats.frames_processed > 0

\* C7: hybrid_node_stop returns false and changes nothing when the node is not
\* running; when running it returns true, clears the running flag, and the last
\* buffer written to the port is all zero.
C7_StopGuards ==
    [][op' = "stop" =>
          IF ~g_running
          THEN ~ret' /\ UNCHANGED node /\ port_writes' = << >>
          ELSE /\ ret'
               /\ ~g_running' /\ ~g_status'.is_running
               /\ port_writes' # << >>
               /\ AllZero(port_writes'[Len(port_writes')])]_vars

\* A stop of a running node that had processed a cycle
C7_StoppedWhileRunning ==
    /\ op = "stop" /\ ret
    /\ LastWriteIsZero
    /\ g_status.stats.frames_processed > 0

\* C8: in every state, hybrid_node_process called while the node is not running
\* or with a null input or output pointer returns false and leaves the node's
\* state and the output buffer as they were; so does every call that returned
\* false.
C8_RefusedProcessChangesNothing ==
    /\ [](\A input \in {NULL} \cup {Ptr(b) : b \in InputBuffers},
             out \in {NULL, Ptr(StaleOutput)},
             temp_raw \in TempReadings :
            (~g_running \/ input = NULL \/ out = NULL) =>
                LET m == hybrid_node_process(Machine, input, out, BufferSize,
                                             temp_raw, 1000, 30)
                IN  /\ ~m.ret
                    /\ NodeOf(m) = node
                    /\ m.output = out
                    /\ m.port_writes = << >>)
    /\ [][op' = "process" /\ ~ret' =>
            /\ UNCHANGED node
            /\ output' \in {NULL, Ptr(StaleOutput)}
            /\ port_writes' = << >>]_vars

\* A call refused for its null input pointer while the node was running and
\* had processed a cycle
C8_RefusedWhileRunning ==
    /\ op = "process" /\ ~ret
    /\ g_running
    /\ output = Ptr(StaleOutput)
    /\ g_status.stats.frames_processed > 0

\* C9: in every running state, hybrid_node_process with non-null buffers
\* returns true and adds exactly 1 to frames_processed, whatever the safety
\* check of the cycle finds; so did every call that returned true.
C9_RunningCycleIsCounted ==
    /\ [](g_running =>
            \A b \in InputBuffers, temp_raw \in TempReadings :
                LET m == hybrid_node_process(Machine, Ptr(b), Ptr(StaleOutput),
                                             BufferSize, temp_raw, 1000, 30)
                IN  /\ m.ret
                    /\ m.g_status.stats.frames_processed =
                           g_status.stats.frames_processed + 1)
    /\ [][op' = "process" /\ ret' =>
            g_status'.stats.frames_processed =
                g_status.stats.frames_processed + 1]_vars

\* A second cycle that shut the node down for its temperature, and was counted
C9_CriticalCycleCounted ==
    /\ CriticalCycle
    /\ ~g_running
    /\ g_status.safety.status = HYBRID_SAFETY_TEMP_CRITICAL
    /\ g_status.stats.frames_processed = 2

\* C10: after a hybrid_node_set_preamp_gain that returned true, the configured
\* gain is within [ANALOG_PREAMP_GAIN_MIN, ANALOG_PREAMP_GAIN_MAX] (a call
\* succeeds exactly when its argument is in range, and stores it).
C10_AcceptedGainIsInRange ==
    op = "set_preamp_gain" /\ ret =>
        /\ FGe(g_config.preamp_gain, ANALOG_PREAMP_GAIN_MIN)
        /\ FGe(ANALOG_PREAMP_GAIN_MAX, g_config.preamp_gain)

\* C11: hybrid_node_calibrate called while the node is running returns false and
\* leaves the live calibration profile, the is_calibrated flag and the caller's
\* structure as they were: in every running state for every argument, and in
\* every such call the node makes.
C11_CalibrateRefusedWhileRunning ==
    /\ [](g_running =>
            \A cal \in CalibrateInputs \cup LoadInputs,
               measured \in LoopbackLatencies, now \in CalibrationTimes :
                LET m == hybrid_node_calibrate(Machine, Ptr(cal), measured, now)
                IN  /\ ~m.ret
                    /\ m.g_status.calibration = g_status.calibration
                    /\ m.g_status.is_calibrated = g_status.is_calibrated
                    /\ m.output = Ptr(cal))
    /\ [][op' = "calibrate" /\ g_running =>
            /\ ~ret'
            /\ g_status'.calibration = g_status.calibration
            /\ g_status'.is_calibrated = g_status.is_calibrated
            /\ output' \in {NULL} \cup {Ptr(c) : c \in CalibrateInputs}]_vars

\* A running node that holds a valid profile has refused a calibration into a
\* caller's structure
C11_RefusedWhileRunning ==
    /\ op = "calibrate" /\ g_running /\ ~ret
    /\ output = Ptr(StaleCalibration)
    /\ g_status.is_calibrated

\* C12: while the node is running its configuration is never modified: no call
\* other than a re-initialisation, and no process cycle, taken between a start
\* and the following stop changes any value of g_config.
C12_ConfigImmutableWhileRunning ==
    [][g_running /\ g_running' /\ op' # "init" => g_config' = g_config]_vars

\* C13: the live calibration profile is replaced only while the node is stopped:
\* no calibrate, load_calibration, load_calibration_file or process taken
\* between a start and the following stop changes g_status.calibration.
C13_ProfileReplacedOnlyWhileStopped ==
    [][g_running /\ g_running' /\ op' # "init" =>
            g_status'.calibration = g_status.calibration]_vars

\* C14: a process cycle whose input buffer has a peak above 0.95 of full scale
\* increases overload_count by exactly 1 and, while the preamp gain is above the
\* minimum, multiplies the gain by 0.9, for every configuration: in every
\* running state, for the buffer Loud.
C14_LoudCycleCountsOverload ==
    g_running =>
        LET m == hybrid_node_process(Machine, Ptr(Loud), Ptr(StaleOutput),
                                     BufferSize, 250, 1000, 30)
        IN  /\ m.g_status.safety.overload_count = g_status.safety.overload_count + 1
            /\ m.g_config.preamp_gain =
                   IF FGt(g_config.preamp_gain, ANALOG_PREAMP_GAIN_MIN)
                   THEN FMul(g_config.preamp_gain, 900)
                   ELSE g_config.preamp_gain

\* C15: overload_count and clamp_count never decrease in a start, stop, process,
\* set_control_voltage, reset_statistics, calibrate or emergency_shutdown call;
\* a call of init is the only step that lowers them.
C15_SafetyCountersNeverDecrease ==
    [][op' # "init" =>
            /\ g_status'.safety.overload_count >= g_status.safety.overload_count
            /\ g_status'.safety.clamp_count >= g_status.safety.clamp_count]_vars

\* reset_statistics has returned on a node that has counted overloads and clamps
C15_ResetKeepsCounters ==
    /\ op = "reset_statistics" /\ ret
    /\ g_status.safety.overload_count > 0
    /\ g_status.safety.clamp_count > 0
    /\ g_status.stats.frames_processed = 0

\* C16: after a successful save_calibration to a file, load_calibration_file of
\* that file succeeds and makes the live profile (gains, offsets, latencies,
\* timestamp, validity flag) equal field for field to the profile that was live
\* at the save, whatever the live profile is now: in every state, for every file
\* whose last save succeeded.
C16_SaveLoadRoundTrip ==
    \A f \in DOMAIN saved :
        LET m == hybrid_node_load_calibration_file(Machine, Ptr(f))
        IN  /\ m.ret
            /\ m.g_status.calibration = saved[f]
            /\ m.g_status.is_calibrated = saved[f].is_calibrated

\* A measured profile was saved to cal.bin, and a load of the file has brought
\* it back
C16_LoadedBackWhatWasSaved ==
    /\ op = "load_calibration_file" /\ ret
    /\ "cal.bin" \in DOMAIN saved
    /\ g_status.calibration = saved["cal.bin"]
    /\ g_status.calibration.calibration_timestamp \in CalibrationTimes
    /\ g_status.calibration.adc_gain = StaleCalibration.adc_gain

\* A file that cannot be opened for reading, or that holds less than one record
Unloadable(f) == f \notin DOMAIN files \/ Len(files[f]) < CalibrationSize

\* C17: load_calibration_file of a file that cannot be opened or holds fewer
\* bytes than one profile record returns false and leaves the live profile and
\* is_calibrated (and all other state of the node) unchanged; a load that
\* returns true has replaced the live profile by the complete record of a file.
C17_FailedLoadChangesNothing ==
    /\ [](\A f \in FileNames :
            Unloadable(f) =>
                LET m == hybrid_node_load_calibration_file(Machine, Ptr(f))
                IN  ~m.ret /\ NodeOf(m) = node /\ m.files = files)
    /\ [][op' = "load_calibration_file" =>
            IF ret'
            THEN \E f \in DOMAIN files :
                    /\ Len(files[f]) >= CalibrationSize
                    /\ CalibrationWords(g_status'.calibration) =
                           SubSeq(files[f], 1, CalibrationSize)
            ELSE UNCHANGED << node, files >>]_vars

\* A load has failed on a calibrated node while short.cal is short, cal.bin was
\* left empty by a failed write and /nodir/cal.bin does not exist
C17_LoadFailedOnCalibratedNode ==
    /\ op = "load_calibration_file" /\ ~ret
    /\ g_status.is_calibrated
    /\ "cal.bin" \in DOMAIN files /\ files["cal.bin"] = << >>
    /\ \A f \in FileNames : Unloadable(f)

\* C18: a calibration's latency check passes exactly when total_latency_us <=
\* 2000 (2000 passes, 2001 fails), and its outcome never changes the result: a
\* calibration on a stopped node with a non-null structure returns true and
\* marks the profile valid, also when the budget is exceeded.
C18_LatencyCheckOnlyReports ==
    /\ [](~g_running /\ platform = "TEENSY" =>
            LET pass == hybrid_node_calibrate(Machine, Ptr(StaleCalibration), 2000,
                                              1700000000)
                fail == hybrid_node_calibrate(Machine, Ptr(StaleCalibration), 2001,
                                              1700000000)
            IN  /\ pass.sc001 = "PASS" /\ fail.sc001 = "FAIL"
                /\ pass.ret /\ fail.ret
                /\ fail.g_status.is_calibrated /\ fail.g_status.calibration.is_calibrated
                /\ fail.g_status.calibration.total_latency_us = 2001)
    /\ [][op' = "calibrate" /\ ~g_running /\ output' # NULL =>
            /\ ret'
            /\ g_status'.is_calibrated
            /\ g_status'.calibration.is_calibrated
            /\ output'[1] = g_status'.calibration
            /\ sc001' = IF g_status'.calibration.total_latency_us <= 2000
                        THEN "PASS" ELSE "FAIL"]_vars

\* A calibration that took 2001 microseconds has reported FAIL, returned true
\* and left a valid live profile
C18_CalibratedOverBudget ==
    /\ op = "calibrate" /\ ret /\ sc001 = "FAIL"
    /\ g_status.calibration.total_latency_us = 2001
    /\ g_status.is_calibrated /\ g_status.calibration.is_calibrated

\* C19: for every metrics record x with sequence s, decode_metrics_from_frame
\* applied with the same s to a frame that encode_metrics_to_frame produced from
\* x returns phi_phase, phi_depth and coherence with exactly the encoded 32-bit
\* patterns, and returns the 4th slot as criticality when s is even and as ici
\* when s is odd: for every record and every frame buffer in every state, and
\* in every receive of a delivered frame into a structure holding the same s.
C19_CodecRoundTrip ==
    /\ [](\A x \in MetricsInputs :
            LET stale == StaleMetrics(x.sequence)
                frame == encode_metrics_to_frame(g_tx_buffer, x)
                y == decode_metrics_from_frame(frame, stale)
            IN  /\ frame[5] = UnionInt(x.phi_phase) /\ y.phi_phase = x.phi_phase
                /\ frame[6] = UnionInt(x.phi_depth) /\ y.phi_depth = x.phi_depth
                /\ frame[7] = UnionInt(x.coherence) /\ y.coherence = x.coherence
                /\ IF x.sequence % 2 = 0
                   THEN y.criticality = x.criticality /\ y.ici = stale.ici
                   ELSE y.ici = x.ici /\ y.criticality = stale.criticality
                /\ y.sequence = x.sequence /\ y.timestamp_us = stale.timestamp_us)
    /\ [][/\ op' = "i2s_bridge_receive" /\ ret' /\ delivered # NULL
          /\ output'[2][1].sequence = delivered[1].sequence
          => LET x == delivered[1]
                 y == output'[2][1]
             IN  /\ y.phi_phase = x.phi_phase
                 /\ y.phi_depth = x.phi_depth
                 /\ y.coherence = x.coherence
                 /\ IF x.sequence % 2 = 0 THEN y.criticality = x.criticality
                                           ELSE y.ici = x.ici]_vars

\* The frame of the edge-case record with sequence 1 was delivered and received
\* into a structure holding sequence 1: the 4th slot came back as ici
C19_ReceivedWithSameSequence ==
    /\ op = "i2s_bridge_receive" /\ ret
    /\ delivered = Ptr(EdgeMetrics(1))
    /\ output[2][1].sequence = 1
    /\ output[2][1].ici = EdgeMetrics(1).ici
    /\ output[2][1].phi_depth = EdgeMetrics(1).phi_depth
    /\ output[2][1].criticality = StaleMetrics(1).criticality

\* C20: for a frame sent with i2s_bridge_transmit and delivered to
\* i2s_bridge_receive, the receiver stores the 4th metric slot by the parity of
\* the sender's sequence number for that frame (criticality when even, ici when
\* odd), whatever the caller's receive structure held before the call.
C20_ReceiverUsesSenderParity ==
    [][op' = "i2s_bridge_receive" /\ ret' /\ delivered # NULL =>
            LET x == delivered[1]
                y == output'[2][1]
            IN  IF x.sequence % 2 = 0 THEN y.criticality = x.criticality
                                     ELSE y.ici = x.ici]_vars

\* The part of a status the reader op copies
SnapshotOf(reader, status) ==
    CASE reader = "get_status" -> status
      [] reader = "get_dsp_metrics" -> status.dsp
      [] reader = "get_safety" -> status.safety

\* C21: a snapshot that get_status, get_dsp_metrics or get_safety returns while
\* a process cycle is under way equals the live structure as it was before the
\* cycle or as it is after the whole cycle; it never mixes fields the cycle has
\* written with fields it has not yet written.
C21_SnapshotIsAtomic ==
    [][op' \in {"get_status", "get_dsp_metrics", "get_safety"} /\ cycle.pc > 0 =>
            LET after == FinishCycle(cycle.pc, Resume, cycle.input, cycle.out,
                                     BufferSize, cycle.temp_raw, cycle.start_us,
                                     cycle.latency_us).g_status
            IN  \/ snapshot'[1] = SnapshotOf(op', cycle.before)
                \/ snapshot'[1] = SnapshotOf(op', after)]_vars

\* C22: in every state in which the node is running with DSP and coherence
\* enabled and safety status OK, a cycle on an all-zero input buffer yields
\* rms = 0, peak = 0, is_overloaded = false, spectral flux = 0 and coherence =
\* 1.0, also after non-silent cycles followed by an init and a start.
C22_SilentCycleMetrics ==
    /\ g_running /\ g_config.enable_dsp /\ g_config.enable_coherence
    /\ g_status.safety.status = HYBRID_SAFETY_OK
    => LET m == hybrid_node_process(Machine, Ptr(Silence), Ptr(StaleOutput),
                                    BufferSize, 250, 1000, 30)
       IN  /\ m.g_status.analog.rms_level = 0
           /\ m.g_status.analog.peak_level = 0
           /\ ~m.g_status.analog.is_overloaded
           /\ m.g_status.dsp.spectral_flux = 0
           /\ m.g_status.dsp.coherence = 1000

\* The statics of the bridge in b
BridgeOf(b) ==
    << b.g_config, b.g_stats, b.g_initialized, b.g_running, b.g_tx_buffer,
       b.g_rx_buffer >>

\* The arguments transmit and receive are called with
AudioPointers == { NULL, Ptr(BridgeAudio), Ptr(Zeros(I2S_BUFFER_SIZE * I2S_CHANNELS)) }
MetricsPointers == {NULL} \cup {Ptr(x) : x \in MetricsInputs \cup ReceiveStructs}

\* C23: the bridge rejects out-of-state calls without any state change: start
\* returns false when the bridge is not initialised or already running, stop
\* returns false when it is not running, transmit and receive return false when
\* it is not running or a pointer is null, and each leaves the statistics, the
\* buffers and the flags as they were: in every state for every argument, and
\* in every such call made.
C23_BridgeRejectsOutOfState ==
    /\ [](~i2s_g_initialized \/ i2s_g_running =>
            LET b == i2s_bridge_start(Bridge)
            IN  ~b.ret /\ BridgeOf(b) = BridgeOf(Bridge))
    /\ [](~i2s_g_running =>
            LET b == i2s_bridge_stop(Bridge)
            IN  ~b.ret /\ BridgeOf(b) = BridgeOf(Bridge))
    /\ [](\A audio_data \in AudioPointers, metrics \in MetricsPointers :
            ~i2s_g_running \/ audio_data = NULL \/ metrics = NULL =>
                LET t == i2s_bridge_transmit(Bridge, audio_data, metrics)
                    r == i2s_bridge_receive(Bridge, audio_data, metrics)
                IN  /\ ~t.ret /\ BridgeOf(t) = BridgeOf(Bridge)
                    /\ ~r.ret /\ BridgeOf(r) = BridgeOf(Bridge)
                    /\ r.output = << audio_data, metrics >>)
    /\ [][op' = "i2s_bridge_start" /\ (~i2s_g_initialized \/ i2s_g_running)
            => ~ret']_vars
    /\ [][op' = "i2s_bridge_stop" /\ ~i2s_g_running => ~ret']_vars
    /\ [][op' \in {"i2s_bridge_start", "i2s_bridge_stop", "i2s_bridge_transmit",
                    "i2s_bridge_receive"} /\ ~ret'
            => UNCHANGED << i2s_g_config, g_stats, i2s_g_initialized,
                            i2s_g_running, g_tx_buffer, g_rx_buffer >>]_vars

\* A running bridge that has transmitted a frame has refused a transmit with a
\* null metrics pointer
C23_TransmitRefusedWhileRunning ==
    /\ op = "i2s_bridge_transmit" /\ ~ret
    /\ i2s_g_running
    /\ g_stats.frames_transmitted > 0
    /\ output = << Ptr(BridgeAudio), NULL >>

\* The sample numbers of a run, in the order the interrupt produced them
StrictlyIncreasing(seq) ==
    \A i \in 1..Len(seq) - 1 : seq[i] < seq[i + 1]

\* C24: the sample numbers of the samples produced since the sensor was last
\* set running strictly increase: no sample carries a number less than or
\* equal to that of an earlier sample of the same run, whatever the
\* interleaving of the sample timer interrupt with phi_sensor_start and
\* phi_sensor_set_sample_rate.
C24_SampleNumbersIncrease ==
    StrictlyIncreasing(sensor.produced)

\* C25: on the Teensy build with the GPIO sync enabled, the drift that
\* i2s_bridge_calibrate_drift stores and returns is (observed_pulses - 1000) /
\* 1000 x 1e6 ppm, where observed_pulses is the number of sync pulse
\* interrupts taken during the window, also when g_sync_counter passes 2^32
\* inside the window.
C25_DriftFromPulsesInWindow ==
    [][op' = "i2s_bridge_calibrate_drift" /\ sync.pc = "delay" =>
            /\ ret' = (sync.pulses - 1000) * 1000
            /\ g_stats'.clock_drift_ppm = (sync.pulses - 1000) * 1000]_vars

\* A calibration whose window held 1001 pulses and in which the counter wrapped
\* has returned +1000 ppm
C25_DriftMeasuredAcrossWrap ==
    /\ op = "i2s_bridge_calibrate_drift"
    /\ sync.start_count = U32(65535, 65036)
    /\ sync.g_sync_counter = U32(0, 501)
    /\ sync.pulses = 1001
    /\ ret = 1000
    /\ g_stats.clock_drift_ppm = 1000

\* The safety check of the cycle under way has just run
SafetyChecked == cycle.pc = 5

\* C26: when the safety check of a cycle has read a temperature above the
\* critical threshold, the status after the check is ThermalCritical and the
\* clamp count is the one the cycle started with, whatever the control voltages
\* were when the cycle began; and a clamp check that follows an emergency
\* shutdown leaves the status Fault.
C26_ClampKeepsCriticalStatus ==
    /\ [](SafetyChecked /\ platform = "TEENSY" /\ g_config.enable_thermal_monitor
          /\ FGt(cycle.temp_raw, SAFETY_TEMP_CRITICAL) =>
              /\ g_status.safety.status = HYBRID_SAFETY_TEMP_CRITICAL
              /\ g_status.safety.clamp_count = cycle.before.safety.clamp_count)
    /\ [](clamp_check(hybrid_node_emergency_shutdown(Machine)).g_status.safety.status
              = HYBRID_SAFETY_FAULT)

\* The safety check of a cycle that began with cv1 at the maximum and the clamp
\* enabled has read a critical temperature
C26_CriticalCycleWithCvAtMaximum ==
    /\ SafetyChecked
    /\ g_config.enable_voltage_clamp
    /\ FGe(cycle.before.control.cv1, SAFETY_VOLTAGE_MAX)
    /\ FGt(cycle.temp_raw, SAFETY_TEMP_CRITICAL)
    /\ g_status.safety.status = HYBRID_SAFETY_TEMP_CRITICAL

\* C27: after a cycle that ran and found the conditioned peak above the
\* overload threshold, with no thermal-critical or fault status set, the
\* safety status is HYBRID_SAFETY_ADC_OVERLOAD.
C27_OverloadSetsStatus ==
    /\ op = "process" /\ ret
    /\ g_status.analog.is_overloaded
    /\ g_status.safety.status \notin {HYBRID_SAFETY_TEMP_CRITICAL, HYBRID_SAFETY_FAULT}
    => g_status.safety.status = HYBRID_SAFETY_ADC_OVERLOAD

\* The last call was a cycle whose analyzer ran: the window it analysed is the
\* conditioned input, still in g_adc_buffer
AnalyzedWindow == FftInput(g_adc_buffer, BufferSize, g_config.adc_channels)

\* C28: after a cycle whose analyzer ran on a window whose non-DC magnitudes
\* sum to 0, the reported spectral centroid is 0, whatever it was before.
C28_SilentWindowCentroidIsZero ==
    /\ op = "process" /\ ret
    /\ g_config.enable_dsp /\ g_status.safety.status = HYBRID_SAFETY_OK
    /\ MagnitudeSum(AnalyzedWindow, 1) = 0
    => g_status.dsp.spectral_centroid = 0

\* The number of ring entries above the peak threshold of 0.5
RingPeaks == Cardinality({i \in 1..ICI_RING : 2 * g_ici_buffer[i] > 1})

\* The last call was a cycle that computed the inter-event interval
IntervalComputed ==
    /\ op = "process" /\ ret
    /\ g_config.enable_dsp /\ g_config.enable_ici
    /\ g_status.safety.status = HYBRID_SAFETY_OK

\* C29: after a cycle that computed it, the reported interval is 100 ms when
\* fewer than 2 of the 32 ring entries exceed the threshold, and otherwise one
\* cycle duration, buffer_size / sample_rate x 1000 ms, whatever the number of
\* peaks and wherever they are in the ring.
C29_IntervalIsDefaultOrOneCycle ==
    IntervalComputed =>
        g_status.dsp.ici = IF RingPeaks < 2 THEN 100000
                           ELSE TDiv(g_config.buffer_size * 1000000,
                                     g_config.sample_rate)

\* A cycle has computed the interval over a ring with three peaks
C29_IntervalOverThreePeaks ==
    /\ IntervalComputed
    /\ RingPeaks = 3
    /\ g_status.dsp.ici = TDiv(HYBRID_BUFFER_SIZE * 1000000, HYBRID_SAMPLE_RATE)

\* The sample of channel ch (from 0) in frame i (from 0) of an interleaved buffer
Sample(buffer, i, ch) == buffer[i * I2S_CHANNELS + ch + 1]

\* The last call was a transmit that returned true
Transmitted == op = "i2s_bridge_transmit" /\ ret

\* C30: after a transmit that returned true the caller's audio buffer and
\* metrics record are what the caller passed, and in every frame of g_tx_buffer
\* channels 0-3 are the caller's audio of that frame and channels 4-7 hold the
\* bits of phi_phase, phi_depth, coherence, and of criticality when the
\* sequence number is even, of ici when it is odd.
C30_TransmitFillsFrame ==
    Transmitted =>
        /\ output[1] = Ptr(BridgeAudio)
        /\ output[2] \in {Ptr(x) : x \in MetricsInputs}
        /\ output[2] = sent
        /\ LET audio_data == output[1][1]
               metrics == output[2][1]
           IN  \A i \in 0..(I2S_BUFFER_SIZE - 1) :
                   /\ \A ch \in 0..3 :
                          Sample(g_tx_buffer, i, ch) = Sample(audio_data, i, ch)
                   /\ UnionFloat(Sample(g_tx_buffer, i, 4)) = metrics.phi_phase
                   /\ UnionFloat(Sample(g_tx_buffer, i, 5)) = metrics.phi_depth
                   /\ UnionFloat(Sample(g_tx_buffer, i, 6)) = metrics.coherence
                   /\ UnionFloat(Sample(g_tx_buffer, i, 7)) =
                          IF metrics.sequence % 2 = 0 THEN metrics.criticality
                          ELSE metrics.ici

\* A transmit of the self-test's metrics with an odd sequence number has
\* returned true: channel 7 of the last frame carries the bits of the ici
C30_OddSequenceTransmitted ==
    /\ Transmitted
    /\ sent = Ptr(TestMetrics(3))
    /\ UnionFloat(Sample(g_tx_buffer, I2S_BUFFER_SIZE - 1, 7)) = << 0, 0, 200, 66 >>
    /\ Sample(g_tx_buffer, I2S_BUFFER_SIZE - 1, 3) = 8388607

C32_NewestSampleStaysReadable ==
    sensor.fresh => sensor.g_data_ready

\* C33: every normalized value the phi sensor publishes lies in [0, 1], for every
\* reading, every loaded calibration, filtering on or off.  A loaded
\* calibration whose bound is a NaN makes the published value a NaN.
C33_NormalizedInUnitRange ==
    \A ch \in Channels :
        /\ ~IsNaN(sensor.g_current_data.normalized[ch])
        /\ sensor.g_current_data.normalized[ch] >= 0
        /\ sensor.g_current_data.normalized[ch] <= 1000

\* C34: phi_sensor_calibrate and phi_sensor_set_sample_rate leave the running
\* flag as they found it: a call that returns at once does not change
\* g_running, and a call that stops or starts the sensor on its way returns
\* with g_running as it was when the call was made.
C34_RunningFlagAsFound ==
    [][op' \in {"phi_sensor_calibrate", "phi_sensor_set_sample_rate"}
           /\ sensor'.pc = "idle" =>
              sensor'.g_running = IF sensor.pc = "idle" THEN sensor.g_running
                                  ELSE sensor.found_running]_vars

\* A calibrate call has returned true on a sensor it found stopped: it started
\* the sensor, a sample was taken during it, and the sensor is stopped again
C34_CalibratedAndStoppedAgain ==
    /\ op = "phi_sensor_calibrate" /\ sensor.pc = "idle" /\ ret
    /\ ~sensor.found_running /\ ~sensor.g_running
    /\ sensor.g_sample_counter > 0
    /\ sensor.g_stats.calibrated

\* C35: the is_running flag hybrid_node_get_status reports equals the running
\* flag that gates hybrid_node_process, after any sequence of init, start,
\* stop, process and emergency_shutdown.  An init of a running node clears the
\* reported flag and leaves the gate open.
C35_ReportedRunningIsTheGate ==
    hybrid_node_get_status(Machine).is_running = g_running

\* C36: the link status of the bridge is STABLE exactly when the bridge is
\* running, whatever calls were made.  An init of a running bridge writes the
\* link status and leaves the running flag set.
C36_StableExactlyWhenRunning ==
    (g_stats.link_status = I2S_LINK_STABLE) <=> i2s_g_running

\* C37: on a node initialised with a gain in [ANALOG_PREAMP_GAIN_MIN,
\* ANALOG_PREAMP_GAIN_MAX] the configured preamp gain stays in that range after
\* any hybrid_node_set_preamp_gain calls and overloaded cycles.  An overloaded
\* cycle takes a tenth off any gain above the minimum, 1.1 included.
C37_GainStaysInRange ==
    g_initialized =>
        /\ FGe(g_config.preamp_gain, ANALOG_PREAMP_GAIN_MIN)
        /\ FGe(ANALOG_PREAMP_GAIN_MAX, g_config.preamp_gain)

\* C38: once the safety status has left Ok no process cycle updates a DSP
\* metric; a cycle updates the metrics only when enable_dsp is set and the
\* status after its safety check is Ok; and the status does not return to Ok,
\* across stop and start either, until the node is initialised again.
C38_NoAnalysisOnceNotOk ==
    /\ [][op' = "process" /\ g_status.safety.status # HYBRID_SAFETY_OK =>
              g_status'.dsp = g_status.dsp]_vars
    /\ [][op' = "process" /\ g_status'.dsp # g_status.dsp =>
              g_config.enable_dsp /\ g_status'.safety.status = HYBRID_SAFETY_OK]_vars
    /\ [][g_status.safety.status # HYBRID_SAFETY_OK /\ ~(op' = "init" /\ ret') =>
              g_status'.safety.status # HYBRID_SAFETY_OK]_vars

\* A cycle has run on a node with the analysis on whose status is not Ok, and
\* the metrics an earlier cycle computed are still there
C38_CycleRanWithoutAnalysis ==
    /\ op = "process" /\ ret
    /\ g_config.enable_dsp
    /\ g_status.safety.status # HYBRID_SAFETY_OK
    /\ g_status.stats.frames_processed = 2
    /\ g_status.dsp.spectral_centroid # 0

\* C39: the clamp check of a cycle runs before the cycle's modulation and after
\* its thermal check: a cycle that ran adds one to clamp_count exactly when
\* clamping is enabled, cv1 or cv2 as it stood at the start of the cycle is at
\* or above SAFETY_VOLTAGE_MAX, and the cycle did not read a critical
\* temperature (the shutdown of a critical cycle zeroes both voltages before
\* the clamp check); otherwise the count stays.
C39_ClampCountsVoltagesAtStart ==
    [][op' = "process" /\ ret' =>
          g_status'.safety.clamp_count =
              IF /\ g_config.enable_voltage_clamp
                 /\ (\/ FGe(g_status.control.cv1, SAFETY_VOLTAGE_MAX)
                     \/ FGe(g_status.control.cv2, SAFETY_VOLTAGE_MAX))
                 /\ ~(/\ platform = "TEENSY" /\ g_config.enable_thermal_monitor
                      /\ FGt(g_status'.safety.temperature, SAFETY_TEMP_CRITICAL))
              THEN g_status.safety.clamp_count + 1
              ELSE g_status.safety.clamp_count]_vars

\* A cycle has counted a clamp on a node whose voltages were only ever raised
\* by the modulator of an earlier cycle
C39_ModulatedVoltageCountedNextCycle ==
    /\ op = "process" /\ ret
    /\ g_config.enable_voltage_clamp
    /\ g_status.control.phi_depth = DeepCv.phi_depth
    /\ g_status.stats.frames_processed = 2
    /\ g_status.safety.clamp_count = 1
    /\ g_status.safety.status = HYBRID_SAFETY_VOLTAGE_CLAMP

\* C39 as stated: a cycle that ran adds one to clamp_count exactly when
\* clamping is enabled and cv1 or cv2 at the start of the cycle is at or above
\* SAFETY_VOLTAGE_MAX.
C39_ClampCountsEveryVoltageAtStart ==
    [][op' = "process" /\ ret' =>
          ((g_status'.safety.clamp_count = g_status.safety.clamp_count + 1) <=>
              /\ g_config.enable_voltage_clamp
              /\ (\/ FGe(g_status.control.cv1, SAFETY_VOLTAGE_MAX)
                  \/ FGe(g_status.control.cv2, SAFETY_VOLTAGE_MAX)))]_vars

\* C40: in every reachable state the is_calibrated flag of the status equals
\* the is_calibrated flag inside the live calibration profile, after any
\* sequence of init, calibrate, load_calibration and load_calibration_file.
C40_StatusFlagIsProfileFlag ==
    g_status.is_calibrated = g_status.calibration.is_calibrated

\* A profile that is not marked calibrated has been loaded over a calibration:
\* both flags are clear
C40_UncalibratedProfileLoaded ==
    /\ op = "load_calibration" /\ ret
    /\ g_status.calibration = StaleCalibration
    /\ ~g_status.is_calibrated
    /\ "cal.bin" \in DOMAIN files

====
